---- MODULE Spec2Model ----
(***************************************************************************)
(* Document storage and access control of PropChain-BackEnd:               *)
(* DocumentService (upload, versioning, metadata update, read, list,       *)
(* download URL) over a StorageProvider, as a state machine.               *)
(*                                                                         *)
(* A call of an async handler is a sequence of steps, one per stretch of   *)
(* code between two awaits.  Spec interleaves the steps of several calls;  *)
(* SeqSpec runs every call to completion before the next one starts.       *)
(***************************************************************************)
EXTENDS Integers, Sequences, FiniteSets, TLC

VARIABLES
    documents,  \* DocumentService.documents: Map<string, DocumentRecord>
    objects,    \* the storage provider's object table: key -> bytes
    nextId,     \* the next fresh document id (uuidv4)
    clock,      \* the value the next `new Date()` of a write yields
    calls,      \* the async calls in flight: locals and position of each
    last        \* outcome of the call that completed most recently

vars == <<documents, objects, nextId, clock, calls, last>>

----------------------------------------------------------------------------
(* Bounds of the model *)

MaxDocs == 2        \* records ever created
MaxVersions == 2    \* addDocumentVersion starts only below this version
MaxClock == 3       \* writes (record created, version appended, metadata set)
MaxCalls == 2       \* async calls in flight at once
MaxWrites == 4      \* AppendSpec, ParallelSpec: a write starts only below this clock

CallIds == 1..MaxCalls

----------------------------------------------------------------------------
(* Data: src/src/documents/document.model.ts *)

DocumentAccessLevel == {"PRIVATE", "RESTRICTED", "PUBLIC"}
DocumentStatus == {"ACTIVE", "ARCHIVED"}
DocumentType == {"DEED", "INSPECTION_REPORT", "PHOTO", "OTHER"}

Users == {"u1", "u2"}
Roles == {"AGENT"}

\* An optional value: {} is absent/undefined, {v} is the value v.
Opt(S) == {{}} \cup {{v} : v \in S}

\* JS truthiness of an optional string: undefined and "" are falsy.
Truthy(o) == o # {} /\ o # {""}

\* `o || d` for an optional string o.
OrElse(o, d) == IF Truthy(o) THEN CHOOSE v \in o : TRUE ELSE d

\* An optional string given as the sequence of its pieces is truthy unless
\* it is undefined or empty.
TruthyString(o) == o # {} /\ o # {<<>>}

\* `o || d` for an optional array or object o (every one of them is truthy).
OrElseArr(o, d) == IF o # {} THEN CHOOSE v \in o : TRUE ELSE d

\* The elements of an array.
Range(array) == {array[i] : i \in DOMAIN array}

----------------------------------------------------------------------------
(* Configuration: src/src/config/storage.config.ts *)

MaxFileSizeBytes == 10 * 1024 * 1024
AllowedMimeTypes ==
    {<<"image", "jpeg">>, <<"image", "png">>, <<"image", "webp">>, <<"application", "pdf">>}
ThumbnailFormat == "webp"
SignedUrlExpiresInSeconds == 900

\* DocumentService.virusSignature: a buffer is a sequence of chunks, the
\* signature is one chunk.
VirusSignature == "EICAR-STANDARD-ANTIVIRUS-TEST-FILE"

----------------------------------------------------------------------------
(* Pure functions of DocumentService *)

\* DocumentService.hashBuffer: SHA-256, taken as injective.
HashBuffer(buffer) == <<"sha256", buffer>>

\* A file name is a sequence of pieces; a piece is a run of characters of
\* [a-zA-Z0-9._-] or one character outside it.
SafePieces == {"a", "my", ".", "_", "-", "pdf", "webp", "photo", "thumbnail"}

SanitizeFileName(fileName) ==
    [i \in DOMAIN fileName |-> IF fileName[i] \in SafePieces THEN fileName[i] ELSE "_"]

\* DocumentService.buildStorageKey: documents/{id}/v{version}/{sanitized}
BuildStorageKey(documentId, version, fileName) ==
    <<"documents", documentId, version, SanitizeFileName(fileName)>>

\* The name maybeGenerateThumbnail stores the thumbnail under.
ThumbnailFileName == <<"thumbnail", ".", ThumbnailFormat>>

\* sharp(...).resize(...).toFormat(...).toBuffer(): a re-encoded image, never
\* the bytes it was made from.
SharpThumbnail(buffer) == <<"thumb", ThumbnailFormat>> \o buffer

\* file.mimetype.startsWith('image/')
IsImage(mimetype) == mimetype[1] = "image"

\* DocumentService.validateFile: "ok", or the message it throws with.
ValidateFile(file) ==
    IF file.mimetype \notin AllowedMimeTypes THEN "Unsupported file type"
    ELSE IF file.size > MaxFileSizeBytes THEN "File exceeds maximum allowed size"
    ELSE "ok"

\* DocumentService.scanForVirus: TRUE iff it does not throw.
ScanForVirus(buffer) == ~(\E i \in DOMAIN buffer : buffer[i] = VirusSignature)

\* DocumentService.assertContext: TRUE iff it does not throw.
AssertContext(context) == context.userId # ""

\* String.prototype.trim on the strings the inputs are made of.
Trim(string) ==
    CASE string = " deed " -> "deed"
      [] string = " u2" -> "u2"
      [] string = " " -> ""
      [] OTHER -> string

\* array.map((entry) => entry.trim()).filter(Boolean)
TrimAndFilter(array) ==
    LET NonEmpty(string) == string # ""
    IN  SelectSeq([i \in DOMAIN array |-> Trim(array[i])], NonEmpty)

\* Mutant: an owner named by the input is taken over, at creation too.
NormalizeMetadataOwnerFromInput(input, context, preserveOwner) ==
    [ propertyId     |-> input.propertyId,
      title          |-> OrElse(input.title, "Untitled document"),
      description    |-> input.description,
      tags           |-> TrimAndFilter(OrElseArr(input.tags, <<>>)),
      uploadedBy     |-> OrElse(input.uploadedBy, context.userId),
      accessLevel    |-> OrElse(input.accessLevel, "PRIVATE"),
      allowedUserIds |-> OrElseArr(input.allowedUserIds, {}),
      allowedRoles   |-> OrElseArr(input.allowedRoles, {}),
      customFields   |-> OrElseArr(input.customFields, <<>>) ]

\* DocumentService.normalizeMetadata.  An input holds, for every field, the
\* optional value read from the object ({}: undefined).
NormalizeMetadata(input, context, preserveOwner) ==
    [ propertyId     |-> input.propertyId,
      title          |-> OrElse(input.title, "Untitled document"),
      description    |-> input.description,
      tags           |-> TrimAndFilter(OrElseArr(input.tags, <<>>)),
      uploadedBy     |-> IF preserveOwner /\ Truthy(input.uploadedBy)
                            THEN CHOOSE v \in input.uploadedBy : TRUE
                            ELSE context.userId,
      accessLevel    |-> OrElse(input.accessLevel, "PRIVATE"),
      allowedUserIds |-> OrElseArr(input.allowedUserIds, {}),
      allowedRoles   |-> OrElseArr(input.allowedRoles, {}),
      customFields   |-> OrElseArr(input.customFields, <<>>) ]

\* { ...document.metadata, ...input }: a key the input object has wins, also
\* when its value is undefined; `keys` are the keys the input object has.
SpreadMetadata(metadata, input) ==
    LET Pick(field, previous) == IF field \in input.keys THEN input[field] ELSE previous
    IN  [ propertyId     |-> Pick("propertyId", metadata.propertyId),
          title          |-> Pick("title", {metadata.title}),
          description    |-> Pick("description", metadata.description),
          tags           |-> Pick("tags", {metadata.tags}),
          uploadedBy     |-> Pick("uploadedBy", {metadata.uploadedBy}),
          accessLevel    |-> Pick("accessLevel", {metadata.accessLevel}),
          allowedUserIds |-> Pick("allowedUserIds", {metadata.allowedUserIds}),
          allowedRoles   |-> Pick("allowedRoles", {metadata.allowedRoles}),
          customFields   |-> Pick("customFields", {metadata.customFields}) ]

\* Mutant: the allow-lists are consulted whatever the access level.
HasReadAccessAnyLevel(document, context) ==
    IF document.metadata.accessLevel = "PUBLIC" THEN TRUE
    ELSE IF document.metadata.uploadedBy = context.userId THEN TRUE
    ELSE IF context.userId \in document.metadata.allowedUserIds THEN TRUE
    ELSE \E role \in context.roles : role \in document.metadata.allowedRoles

\* Mutant: a RESTRICTED record is read by its allowed users only, roles are
\* not consulted.
HasReadAccessNoRoles(document, context) ==
    IF document.metadata.accessLevel = "PUBLIC" THEN TRUE
    ELSE IF document.metadata.uploadedBy = context.userId THEN TRUE
    ELSE IF document.metadata.accessLevel = "RESTRICTED"
         THEN context.userId \in document.metadata.allowedUserIds
    ELSE FALSE

\* DocumentService.hasReadAccess
HasReadAccess(document, context) ==
    IF document.metadata.accessLevel = "PUBLIC" THEN TRUE
    ELSE IF document.metadata.uploadedBy = context.userId THEN TRUE
    ELSE IF document.metadata.accessLevel = "RESTRICTED"
         THEN IF context.userId \in document.metadata.allowedUserIds THEN TRUE
              ELSE \E role \in context.roles : role \in document.metadata.allowedRoles
    ELSE FALSE

\* DocumentService.hasWriteAccess
HasWriteAccess(document, context) ==
    IF document.metadata.uploadedBy = context.userId THEN TRUE
    ELSE \E role \in context.roles : role \in document.metadata.allowedRoles

\* Mutant: the current number is reused.
NextVersionNumberSame(document) == document.currentVersion

\* addDocumentVersion: the number it hands to createVersion.
NextVersionNumber(document) == document.currentVersion + 1

\* Mutant: the new version replaces the newest entry.
PushVersionReplace(versions, version) ==
    SubSeq(versions, 1, Len(versions) - 1) \o <<version>>

\* addDocumentVersion: document.versions.push(version)
PushVersion(versions, version) == Append(versions, version)

\* Mutant: uploadObject returns without having stored the object.
UploadObjectDropped(objs, key, buffer) == objs

\* uploadObject, when it returns: the object is stored under the key.
UploadObject(objs, key, buffer) == (key :> buffer) @@ objs

\* document.versions.find((item) => item.version === n): the first match,
\* as an optional value.
FindVersion(document, n) ==
    LET hits == {i \in DOMAIN document.versions : document.versions[i].version = n}
    IN  IF hits = {} THEN {}
        ELSE {document.versions[CHOOSE i \in hits : \A j \in hits : i <= j]}

\* Mutant: the first version is taken for the current one.
GetCurrentVersionFirst(document) == FindVersion(document, 1)

\* getCurrentVersion, as an optional value.
GetCurrentVersion(document) == FindVersion(document, document.currentVersion)

\* Mutant: the requested number is ignored, the current version is found.
GetVersionCurrent(document, versionNumber) == FindVersion(document, document.currentVersion)

\* getVersion, as an optional value.
GetVersion(document, versionNumber) == FindVersion(document, versionNumber)

\* InMemoryStorageProvider.getSignedUrl: what the URL names and signs.
GetSignedUrl(key, expiresInSeconds, method) ==
    [key |-> key, method |-> method, expiresIn |-> expiresInSeconds]

----------------------------------------------------------------------------
(* Inputs *)

NoContext == [userId |-> "", roles |-> {}]

\* DocumentAccessContext as the controller hands it over; userId "" is a
\* request without the x-user-id header.
Contexts == [userId : Users \cup {""}, roles : SUBSET Roles]

\* Express.Multer.File: originalname, mimetype, buffer, size.
File(name, mimetype, buffer, size) ==
    [originalname |-> name, mimetype |-> mimetype, buffer |-> buffer, size |-> size]

PdfA == File(<<"a", ".", "pdf">>, <<"application", "pdf">>, <<"b1">>, 1)
PdfB == File(<<"a", ".", "pdf">>, <<"application", "pdf">>, <<"b2">>, 1)
Photo == File(<<"my", " ", "photo", ".", "webp">>, <<"image", "webp">>, <<"b1">>, 1)
ThumbnailNamed == File(<<"thumbnail", ".", "webp">>, <<"image", "webp">>, <<"b2">>, 1)
Infected == File(<<"a", ".", "pdf">>, <<"application", "pdf">>, <<"b1", VirusSignature>>, 2)
TextFile == File(<<"a", ".", "pdf">>, <<"text", "plain">>, <<"b1">>, 1)
Oversize == File(<<"a", ".", "pdf">>, <<"application", "pdf">>, <<"b1">>, MaxFileSizeBytes + 1)

Files == {PdfA, PdfB, Photo, ThumbnailNamed, Infected, TextFile, Oversize}

\* What uploadDocuments is called with: no file, one file, two files.
FileLists == {<<>>} \cup {<<f>> : f \in Files}
                \cup {<<f, g>> : f \in {PdfA, Infected}, g \in {PdfA, Photo, Infected}}

\* DocumentMetadataInput: the object {}.  `keys` are the keys the object has;
\* a field is the optional value read from it.
EmptyInput ==
    [keys |-> {}, propertyId |-> {}, type |-> {}, title |-> {}, description |-> {},
     tags |-> {}, accessLevel |-> {}, allowedUserIds |-> {}, allowedRoles |-> {},
     customFields |-> {}, uploadedBy |-> {}]

InputFields == DOMAIN EmptyInput \ {"keys"}

\* An object literal that lists exactly the fields it gives a value.
Literal(input) == [input EXCEPT !.keys = {field \in InputFields : input[field] # {}}]

\* An object literal with the access fields given.
MetadataInput(uploadedBy, accessLevel, allowedUserIds, allowedRoles) ==
    Literal([EmptyInput EXCEPT !.uploadedBy = uploadedBy, !.accessLevel = accessLevel,
                               !.allowedUserIds = allowedUserIds,
                               !.allowedRoles = allowedRoles])

UploadInputs ==
    { MetadataInput({}, {}, {}, {}),
      MetadataInput({"u2"}, {"PUBLIC"}, {}, {}),
      MetadataInput({}, {"RESTRICTED"}, {{"u2"}}, {}),
      MetadataInput({}, {"RESTRICTED"}, {}, {{"AGENT"}}),
      MetadataInput({}, {}, {{"u2"}}, {{"AGENT"}}),
      MetadataInput({}, {"PUBLIC"}, {{"u2"}}, {{"AGENT"}}) }

UpdateInputs ==
    { MetadataInput({}, {}, {}, {}),
      MetadataInput({}, {"PUBLIC"}, {}, {}),
      MetadataInput({}, {"PRIVATE"}, {}, {}),
      MetadataInput({}, {"RESTRICTED"}, {{"u2"}}, {{}}),
      MetadataInput({}, {}, {{}}, {{"AGENT"}}),
      MetadataInput({"u2"}, {}, {}, {}),
      MetadataInput({""}, {}, {}, {}) }

\* DocumentSearchFilters: the object {}.
NoFilters ==
    [propertyId |-> {}, type |-> {}, accessLevel |-> {}, tag |-> {}, uploadedBy |-> {},
     mimeType |-> {}, createdAfter |-> {}, createdBefore |-> {}, search |-> {}]

Filters == {NoFilters, [NoFilters EXCEPT !.accessLevel = {"PRIVATE"}]}

\* The versionNumber argument of getDownloadUrl: undefined or a number.
VersionArgs == Opt(0 .. MaxVersions + 1)

\* documentId arguments: every id that can exist, and one that never does.
DocIdArgs == 0 .. MaxDocs

----------------------------------------------------------------------------
(* State *)

NoMetadata == [propertyId |-> {}, title |-> "", description |-> {}, tags |-> <<>>,
               uploadedBy |-> "", accessLevel |-> "PRIVATE",
               allowedUserIds |-> {}, allowedRoles |-> {}, customFields |-> <<>>]

NoVersion == [version |-> 0, storageKey |-> <<>>, checksum |-> <<>>, size |-> 0,
              mimeType |-> <<>>, createdAt |-> 0, uploadedBy |-> "",
              originalFileName |-> <<>>, thumbnailKey |-> {}]

\* A call not in flight.
IdleCall == [pc |-> "idle", op |-> "none", ctx |-> NoContext, docId |-> 0,
             files |-> <<>>, idx |-> 0, input |-> EmptyInput, metadata |-> NoMetadata,
             type |-> "OTHER",
             versionNumber |-> 0, version |-> NoVersion, results |-> {}]

\* No call has completed since the last async call started.
NoOutcome == [op |-> "none", ctx |-> NoContext, docId |-> 0, version |-> {},
              input |-> EmptyInput, filters |-> NoFilters,
              result |-> "pending", message |-> "", url |-> {}, ids |-> {}]

\* A call returned: `ids` are the records it returns (uploadDocuments: stored).
Returned(op, ctx, docId, version, url, ids) ==
    [op |-> op, ctx |-> ctx, docId |-> docId, version |-> version, input |-> EmptyInput,
     filters |-> NoFilters, result |-> "ok", message |-> "", url |-> url, ids |-> ids]

\* The exception class a message is thrown with.
ExceptionOf(message) ==
    CASE message \in {"Document not found", "Document version not found"} -> "NotFound"
      [] message \in {"You do not have permission to access this document",
                      "You do not have permission to update this document"} -> "Forbidden"
      [] OTHER -> "BadRequest"

\* A call threw: `ids` are the records uploadDocuments had stored by then.
Threw(op, ctx, docId, version, message, ids) ==
    [op |-> op, ctx |-> ctx, docId |-> docId, version |-> version, input |-> EmptyInput,
     filters |-> NoFilters, result |-> ExceptionOf(message), message |-> message,
     url |-> {}, ids |-> ids]

Init ==
    /\ documents = <<>>
    /\ objects = <<>>
    /\ nextId = 1
    /\ clock = 1
    /\ calls = [c \in CallIds |-> IdleCall]
    /\ last = NoOutcome

InFlight == {c \in CallIds : calls[c].pc # "idle"}

\* `seq`: the caller awaits every call before it makes the next one.
MayStart(seq) == seq => InFlight = {}

\* Document ids the uploadDocuments calls in flight will still draw.
RECURSIVE IdsToDraw(_)
IdsToDraw(cs) ==
    IF cs = {} THEN 0
    ELSE LET c == CHOOSE k \in cs : TRUE
         IN  (IF calls[c].op = "upload" THEN Len(calls[c].files) - calls[c].idx ELSE 0)
             + IdsToDraw(cs \ {c})

\* The file createVersion is working on in call c.
CurrentFile(call) == call.files[call.idx]

----------------------------------------------------------------------------
(* Steps of the handlers *)

\* assertContext, then getDocument: "ok" (it returns the record), or the
\* message thrown.
GetDocumentResult(documentId, ctx) ==
    IF ~AssertContext(ctx) THEN "User context is required"
    ELSE IF documentId \notin DOMAIN documents THEN "Document not found"
    ELSE IF ~HasReadAccess(documents[documentId], ctx)
         THEN "You do not have permission to access this document"
    ELSE "ok"

\* Mutant: the record is fetched for update without the read check.
GetDocumentForUpdateNoRead(documentId, ctx) ==
    IF ~AssertContext(ctx) THEN "User context is required"
    ELSE IF documentId \notin DOMAIN documents THEN "Document not found"
    ELSE IF ~HasWriteAccess(documents[documentId], ctx)
         THEN "You do not have permission to update this document"
    ELSE "ok"

\* Mutant: the record is fetched for update without the write check.
GetDocumentForUpdateNoWrite(documentId, ctx) == GetDocumentResult(documentId, ctx)

\* assertContext, then getDocumentForUpdate: "ok", or the message thrown.
GetDocumentForUpdateResult(documentId, ctx) ==
    IF GetDocumentResult(documentId, ctx) # "ok" THEN GetDocumentResult(documentId, ctx)
    ELSE IF ~HasWriteAccess(documents[documentId], ctx)
         THEN "You do not have permission to update this document"
    ELSE "ok"

\* The call c ends: it returns or throws, and its locals are gone.
Finish(c, outcome) ==
    /\ calls' = [calls EXCEPT ![c] = IdleCall]
    /\ last' = outcome

OpName(call) == IF call.op = "add" THEN "addDocumentVersion" ELSE "uploadDocuments"

\* createVersion throws in call c.
CreateVersionThrows(c, call, message) ==
    Finish(c, Threw(OpName(call), call.ctx, IF call.op = "add" THEN call.docId ELSE 0, {},
                    message, call.results))

\* uploadDocuments, top of the loop body: draw the id, enter createVersion,
\* which validates the file and awaits.
StartFile(c, call) ==
    /\ nextId' = nextId + 1
    /\ IF ValidateFile(CurrentFile(call)) # "ok"
       THEN CreateVersionThrows(c, call, ValidateFile(CurrentFile(call)))
       ELSE /\ calls' = [calls EXCEPT ![c] =
                            [call EXCEPT !.pc = "upload", !.docId = nextId, !.versionNumber = 1]]
            /\ last' = NoOutcome

\* uploadDocuments up to its first await.
UploadDocuments(seq, c, files, input, ctx) ==
    /\ MayStart(seq)
    /\ calls[c].pc = "idle"
    /\ clock < MaxClock
    /\ (nextId - 1) + IdsToDraw(InFlight) + Len(files) <= MaxDocs
    /\ UNCHANGED <<documents, objects, clock>>
    /\ IF Len(files) = 0
       THEN /\ Finish(c, Threw("uploadDocuments", ctx, 0, {}, "At least one file is required", {}))
            /\ UNCHANGED nextId
       ELSE IF ~AssertContext(ctx)
       THEN /\ Finish(c, Threw("uploadDocuments", ctx, 0, {}, "User context is required", {}))
            /\ UNCHANGED nextId
       ELSE StartFile(c, [IdleCall EXCEPT !.op = "upload", !.ctx = ctx, !.files = files,
                                          !.idx = 1, !.input = input,
                                          !.metadata = NormalizeMetadata(input, ctx, FALSE),
                                          !.type = OrElse(input.type, "OTHER")])

\* addDocumentVersion up to its first await (inside createVersion).
AddDocumentVersionStart(seq, c, documentId, file, ctx) ==
    /\ MayStart(seq)
    /\ calls[c].pc = "idle"
    /\ UNCHANGED <<documents, objects, nextId, clock>>
    /\ LET throw(message) ==
               Finish(c, Threw("addDocumentVersion", ctx, documentId, {}, message, {}))
       IN  IF GetDocumentForUpdateResult(documentId, ctx) # "ok"
           THEN throw(GetDocumentForUpdateResult(documentId, ctx))
           ELSE IF ValidateFile(file) # "ok" THEN throw(ValidateFile(file))
           ELSE /\ calls' = [calls EXCEPT ![c] =
                                [IdleCall EXCEPT !.pc = "upload", !.op = "add", !.ctx = ctx,
                                     !.docId = documentId, !.files = <<file>>, !.idx = 1,
                                     !.versionNumber = NextVersionNumber(documents[documentId])]]
                /\ last' = NoOutcome

\* addDocumentVersion, started while the model's bounds leave room for the
\* version and the write.
AddDocumentVersion(seq, c, documentId, file, ctx) ==
    /\ clock < MaxClock
    /\ documentId \in DOMAIN documents => documents[documentId].currentVersion < MaxVersions
    /\ AddDocumentVersionStart(seq, c, documentId, file, ctx)

\* Mutant: the bytes are uploaded first and scanned afterwards.
CreateVersionUploadThenScan(c, ok) ==
    LET call == calls[c]
        file == CurrentFile(call)
        storageKey == BuildStorageKey(call.docId, call.versionNumber, file.originalname)
    IN  /\ call.pc = "upload"
        /\ UNCHANGED <<documents, nextId, clock>>
        /\ IF ~ok
           THEN /\ CreateVersionThrows(c, call, "Failed to upload document to storage")
                /\ UNCHANGED objects
           ELSE /\ objects' = UploadObject(objects, storageKey, file.buffer)
                /\ IF ~ScanForVirus(file.buffer)
                   THEN CreateVersionThrows(c, call, "File failed virus scan")
                   ELSE /\ calls' = [calls EXCEPT ![c].pc = "thumbnail"]
                        /\ UNCHANGED last

\* createVersion after validateFile: scan, checksum, key, uploadObject.
\* `ok`: the provider stores the object; otherwise uploadObject throws
\* (S3StorageProvider: the PUT or the signing fails).
CreateVersionUpload(c, ok) ==
    LET call == calls[c]
        file == CurrentFile(call)
        storageKey == BuildStorageKey(call.docId, call.versionNumber, file.originalname)
    IN  /\ call.pc = "upload"
        /\ UNCHANGED <<documents, nextId, clock>>
        /\ IF ~ScanForVirus(file.buffer)
           THEN /\ ok
                /\ CreateVersionThrows(c, call, "File failed virus scan")
                /\ UNCHANGED objects
           ELSE IF ok
           THEN /\ objects' = UploadObject(objects, storageKey, file.buffer)
                /\ calls' = [calls EXCEPT ![c].pc = "thumbnail"]
                /\ UNCHANGED last
           ELSE /\ CreateVersionThrows(c, call, "Failed to upload document to storage")
                /\ UNCHANGED objects

\* Mutant: the thumbnail key is returned once sharp has produced the
\* thumbnail, whether the provider stored it or not.
MaybeGenerateThumbnailKeyBeforeUpload(c, made, ok) ==
    LET call == calls[c]
        file == CurrentFile(call)
        thumbnailKey == BuildStorageKey(call.docId, call.versionNumber, ThumbnailFileName)
        version == [version |-> call.versionNumber,
                    storageKey |-> BuildStorageKey(call.docId, call.versionNumber,
                                                   file.originalname),
                    checksum |-> HashBuffer(file.buffer),
                    size |-> file.size,
                    mimeType |-> file.mimetype,
                    createdAt |-> clock,
                    uploadedBy |-> call.ctx.userId,
                    originalFileName |-> file.originalname,
                    thumbnailKey |-> IF IsImage(file.mimetype) /\ made
                                     THEN {thumbnailKey} ELSE {}]
    IN  /\ call.pc = "thumbnail"
        /\ ~IsImage(file.mimetype) => made /\ ok
        /\ ~made => ok
        /\ objects' = IF IsImage(file.mimetype) /\ made /\ ok
                      THEN UploadObject(objects, thumbnailKey, SharpThumbnail(file.buffer))
                      ELSE objects
        /\ calls' = [calls EXCEPT ![c].pc = "return", ![c].version = version]
        /\ UNCHANGED <<documents, nextId, clock, last>>

\* maybeGenerateThumbnail and the return of createVersion.
\* `made`: sharp produces the thumbnail; `ok`: the provider stores it.
MaybeGenerateThumbnail(c, made, ok) ==
    LET call == calls[c]
        file == CurrentFile(call)
        thumbnailKey == BuildStorageKey(call.docId, call.versionNumber, ThumbnailFileName)
        stored == IsImage(file.mimetype) /\ made /\ ok
        version == [version |-> call.versionNumber,
                    storageKey |-> BuildStorageKey(call.docId, call.versionNumber,
                                                   file.originalname),
                    checksum |-> HashBuffer(file.buffer),
                    size |-> file.size,
                    mimeType |-> file.mimetype,
                    createdAt |-> clock,
                    uploadedBy |-> call.ctx.userId,
                    originalFileName |-> file.originalname,
                    thumbnailKey |-> IF stored THEN {thumbnailKey} ELSE {}]
    IN  /\ call.pc = "thumbnail"
        /\ ~IsImage(file.mimetype) => made /\ ok
        /\ ~made => ok
        /\ objects' = IF stored THEN UploadObject(objects, thumbnailKey,
                                                   SharpThumbnail(file.buffer))
                                ELSE objects
        /\ calls' = [calls EXCEPT ![c].pc = "return", ![c].version = version]
        /\ UNCHANGED <<documents, nextId, clock, last>>

\* addDocumentVersion after createVersion has returned.
AppendVersion(c) ==
    LET call == calls[c]
    IN  /\ call.pc = "return"
        /\ call.op = "add"
        /\ documents' = [documents EXCEPT
                            ![call.docId].versions = PushVersion(@, call.version),
                            ![call.docId].currentVersion = call.version.version,
                            ![call.docId].updatedAt = clock]
        /\ clock' = clock + 1
        /\ Finish(c, Returned("addDocumentVersion", call.ctx, call.docId, {}, {}, {call.docId}))
        /\ UNCHANGED <<objects, nextId>>

\* uploadDocuments after createVersion has returned: the record is stored,
\* then the next file starts or the call returns.  `metadataRef` is the
\* identity of the object the record's metadata refers to: the records of
\* one call refer to the one object normalizeMetadata made for the call.
StoreRecord(c) ==
    LET call == calls[c]
        first == CHOOSE id \in call.results \cup {call.docId} :
                     \A other \in call.results \cup {call.docId} : id <= other
        record == [id |-> call.docId,
                   type |-> call.type,
                   metadata |-> call.metadata,
                   metadataRef |-> <<"upload", first>>,
                   versions |-> <<call.version>>,
                   currentVersion |-> call.version.version,
                   status |-> "ACTIVE",
                   createdAt |-> clock,
                   updatedAt |-> clock]
        results == call.results \cup {call.docId}
    IN  /\ call.pc = "return"
        /\ call.op = "upload"
        /\ documents' = (call.docId :> record) @@ documents
        /\ clock' = clock + 1
        /\ UNCHANGED objects
        /\ IF call.idx < Len(call.files)
           THEN StartFile(c, [call EXCEPT !.idx = @ + 1, !.results = results,
                                          !.version = NoVersion])
           ELSE /\ Finish(c, Returned("uploadDocuments", call.ctx, 0, {}, {}, results))
                /\ UNCHANGED nextId

\* Mutant: the record is rebuilt around the new metadata, as at creation.
ApplyMetadataRebuilt(document, input, ctx, now) ==
    [document EXCEPT !.metadata = NormalizeMetadata(SpreadMetadata(@, input), ctx, TRUE),
                     !.type = OrElse(input.type, @),
                     !.createdAt = now,
                     !.updatedAt = now]

\* Mutant: a metadata update archives the record.
ApplyMetadataArchives(document, input, ctx, now) ==
    [document EXCEPT !.metadata = NormalizeMetadata(SpreadMetadata(@, input), ctx, TRUE),
                     !.type = OrElse(input.type, @),
                     !.status = "ARCHIVED",
                     !.updatedAt = now]

\* updateMetadata: what it writes to the record it fetched; the metadata is
\* a new object.
ApplyMetadata(document, input, ctx, now) ==
    [document EXCEPT !.metadata = NormalizeMetadata(SpreadMetadata(@, input), ctx, TRUE),
                     !.metadataRef = <<"update", now>>,
                     !.type = OrElse(input.type, @),
                     !.updatedAt = now]

\* Mutant: the new metadata is copied into the object the record refers to,
\* which the other records of the same upload refer to as well.
AssignRecordInPlace(docs, documentId, record) ==
    [id \in DOMAIN docs |->
        IF id = documentId THEN [record EXCEPT !.metadataRef = docs[id].metadataRef]
        ELSE IF docs[id].metadataRef = docs[documentId].metadataRef
        THEN [docs[id] EXCEPT !.metadata = record.metadata]
        ELSE docs[id]]

\* updateMetadata assigns to the fields of the record it fetched: the other
\* records are other objects.
AssignRecord(docs, documentId, record) == [docs EXCEPT ![documentId] = record]

\* updateMetadata: no await, one step.
UpdateMetadataCall(seq, documentId, input, ctx) ==
    /\ MayStart(seq)
    /\ UNCHANGED <<objects, nextId, calls>>
    /\ IF GetDocumentForUpdateResult(documentId, ctx) # "ok"
       THEN /\ last' = [Threw("updateMetadata", ctx, documentId, {},
                              GetDocumentForUpdateResult(documentId, ctx), {})
                           EXCEPT !.input = input]
            /\ UNCHANGED <<documents, clock>>
       ELSE /\ documents' = AssignRecord(documents, documentId,
                                         ApplyMetadata(documents[documentId], input, ctx,
                                                       clock))
            /\ clock' = clock + 1
            /\ last' = [Returned("updateMetadata", ctx, documentId, {}, {}, {documentId})
                           EXCEPT !.input = input]

\* updateMetadata, called while the model's bounds leave room for the write.
UpdateMetadata(seq, documentId, input, ctx) ==
    /\ clock < MaxClock
    /\ UpdateMetadataCall(seq, documentId, input, ctx)

\* getDocument
GetDocument(seq, documentId, ctx) ==
    /\ MayStart(seq)
    /\ last' = IF GetDocumentResult(documentId, ctx) # "ok"
               THEN Threw("getDocument", ctx, documentId, {},
                          GetDocumentResult(documentId, ctx), {})
               ELSE Returned("getDocument", ctx, documentId, {}, {}, {documentId})
    /\ UNCHANGED <<documents, objects, nextId, clock, calls>>

\* String.prototype.toLowerCase on the strings the inputs are made of.
ToLowerCase(string) ==
    CASE string = "Front" -> "front"
      [] string = "FRONT" -> "front"
      [] string = "DEED" -> "deed"
      [] string = "Front The" -> "front the"
      [] string = "Untitled document" -> "untitled document"
      [] OTHER -> string

\* A lower-case string as the sequence of its words and spaces.
Pieces(string) ==
    CASE string = "" -> <<>>
      [] string = "the front" -> <<"the", " ", "front">>
      [] string = "front the" -> <<"front", " ", "the">>
      [] string = "untitled document" -> <<"untitled", " ", "document">>
      [] OTHER -> <<string>>

\* strings.join(' ')
RECURSIVE JoinWithSpace(_)
JoinWithSpace(strings) ==
    IF strings = <<>> THEN <<>>
    ELSE IF Len(strings) = 1 THEN Head(strings)
    ELSE Head(strings) \o <<" ">> \o JoinWithSpace(Tail(strings))

\* text.includes(part)
Includes(text, part) ==
    \E start \in 1 .. (Len(text) - Len(part) + 1) :
        SubSeq(text, start, start + Len(part) - 1) = part

\* listDocuments: [title, description || '', tags.join(' ')].join(' ')
\* .toLowerCase()
CombinedText(document) ==
    JoinWithSpace(<< Pieces(ToLowerCase(document.metadata.title)),
                     Pieces(ToLowerCase(OrElse(document.metadata.description, ""))),
                     JoinWithSpace([i \in DOMAIN document.metadata.tags |->
                                       Pieces(ToLowerCase(document.metadata.tags[i]))]) >>)

\* listDocuments, loop body: the checks before the one on mimeType.
PassesUntilMimeType(document, filters, ctx) ==
    /\ HasReadAccess(document, ctx)
    /\ ~(Truthy(filters.propertyId) /\ document.metadata.propertyId # filters.propertyId)
    /\ ~(Truthy(filters.type) /\ {document.type} # filters.type)
    /\ ~(Truthy(filters.accessLevel)
            /\ {document.metadata.accessLevel} # filters.accessLevel)
    /\ ~(Truthy(filters.uploadedBy) /\ {document.metadata.uploadedBy} # filters.uploadedBy)

\* listDocuments, loop body: the checks from the one on mimeType on, for a
\* record whose current version is found.
PassesFromMimeType(document, filters) ==
    /\ ~(TruthyString(filters.mimeType)
            /\ {(CHOOSE v \in GetCurrentVersion(document) : TRUE).mimeType}
                   # filters.mimeType)
    /\ ~(\E createdAfter \in filters.createdAfter : document.createdAt < createdAfter)
    /\ ~(\E createdBefore \in filters.createdBefore : document.createdAt > createdBefore)
    /\ ~(Truthy(filters.tag)
            /\ ~\E i \in DOMAIN document.metadata.tags :
                   {ToLowerCase(document.metadata.tags[i])}
                       = {ToLowerCase(tag) : tag \in filters.tag})
    /\ ~(Truthy(filters.search)
            /\ ~\E search \in filters.search :
                   Includes(CombinedText(document), Pieces(ToLowerCase(search))))

\* listDocuments throws: getCurrentVersion finds no current version in a
\* record that has come as far as the check on mimeType.
ListDocumentsThrows(filters, ctx) ==
    /\ TruthyString(filters.mimeType)
    /\ \E id \in DOMAIN documents :
          /\ PassesUntilMimeType(documents[id], filters, ctx)
          /\ GetCurrentVersion(documents[id]) = {}

\* listDocuments: the ids of the records it returns.
ListDocumentsResult(filters, ctx) ==
    {id \in DOMAIN documents :
        /\ PassesUntilMimeType(documents[id], filters, ctx)
        /\ PassesFromMimeType(documents[id], filters)}

ListDocuments(seq, filters, ctx) ==
    /\ MayStart(seq)
    /\ last' = [ IF ~AssertContext(ctx)
                 THEN Threw("listDocuments", ctx, 0, {}, "User context is required", {})
                 ELSE IF ListDocumentsThrows(filters, ctx)
                 THEN Threw("listDocuments", ctx, 0, {}, "Document version not found", {})
                 ELSE Returned("listDocuments", ctx, 0, {}, {},
                               ListDocumentsResult(filters, ctx))
                 EXCEPT !.filters = filters ]
    /\ UNCHANGED <<documents, objects, nextId, clock, calls>>

\* getDownloadUrl: no await, one step.
GetDownloadUrl(seq, documentId, versionNumber, ctx) ==
    /\ MayStart(seq)
    /\ UNCHANGED <<documents, objects, nextId, clock, calls>>
    /\ LET throw(message) ==
               last' = Threw("getDownloadUrl", ctx, documentId, versionNumber, message, {})
           found == IF versionNumber = {}
                    THEN GetCurrentVersion(documents[documentId])
                    ELSE GetVersion(documents[documentId], CHOOSE n \in versionNumber : TRUE)
       IN  IF GetDocumentResult(documentId, ctx) # "ok"
           THEN throw(GetDocumentResult(documentId, ctx))
           ELSE IF found = {} THEN throw("Document version not found")
           ELSE last' = Returned("getDownloadUrl", ctx, documentId, versionNumber,
                                 {GetSignedUrl((CHOOSE v \in found : TRUE).storageKey,
                                               SignedUrlExpiresInSeconds, "GET")},
                                 {documentId})

----------------------------------------------------------------------------
(* DocumentController: the request handlers in front of the service *)

\* UpdateMetadataDto: the body {}.  Every field is an optional string; a
\* comma-separated string is the sequence of its entries ("" is <<"">>), a
\* JSON text is what JSON.parse makes of it ({}: it throws).
EmptyBody ==
    [propertyId |-> {}, type |-> {}, title |-> {}, description |-> {}, tags |-> {},
     accessLevel |-> {}, allowedUserIds |-> {}, allowedRoles |-> {}, customFields |-> {}]

JsonText(parsed) == [empty |-> FALSE, parsed |-> parsed]

\* DocumentController.parseCsv
ParseCsv(value) ==
    IF value = {} \/ value = {<<"">>} THEN <<>>
    ELSE TrimAndFilter(CHOOSE entries \in value : TRUE)

\* DocumentController.parseCustomFields
ParseCustomFields(value) ==
    IF value = {} THEN <<>>
    ELSE LET text == CHOOSE t \in value : TRUE
         IN  IF text.empty \/ text.parsed = {} THEN <<>>
             ELSE CHOOSE object \in text.parsed : TRUE

\* DocumentController.parseMetadataInput: an object that has every key but
\* uploadedBy, with the value undefined where the body has none.
ParseMetadataInput(body) ==
    [ keys           |-> InputFields \ {"uploadedBy"},
      propertyId     |-> body.propertyId,
      type           |-> body.type,
      title          |-> body.title,
      description    |-> body.description,
      tags           |-> IF body.tags = {} THEN {} ELSE {ParseCsv(body.tags)},
      accessLevel    |-> body.accessLevel,
      allowedUserIds |-> IF body.allowedUserIds = {} THEN {}
                         ELSE {Range(ParseCsv(body.allowedUserIds))},
      allowedRoles   |-> IF body.allowedRoles = {} THEN {}
                         ELSE {Range(ParseCsv(body.allowedRoles))},
      customFields   |-> IF body.customFields = {} THEN {}
                         ELSE {ParseCustomFields(body.customFields)},
      uploadedBy     |-> {} ]

\* DocumentController.buildAccessContext
BuildAccessContext(userId, rolesHeader) ==
    [userId |-> userId, roles |-> Range(ParseCsv(rolesHeader))]

\* PATCH /documents/:id/metadata
PatchMetadata(seq, documentId, body, userId, rolesHeader) ==
    UpdateMetadata(seq, documentId, ParseMetadataInput(body),
                   BuildAccessContext(userId, rolesHeader))

----------------------------------------------------------------------------
(* Storage providers: signed URLs *)

\* A string is the sequence of its pieces: a piece is one character, or a
\* run of characters that the code handles as a whole ("GET", "://").

DigitChars == <<"0", "1", "2", "3", "4", "5", "6", "7", "8", "9">>

\* String(n) of an integer n.
RECURSIVE Digits(_)
Digits(n) ==
    IF n < 0 THEN <<"-">> \o Digits(0 - n)
    ELSE IF n < 10 THEN <<DigitChars[n + 1]>>
    ELSE Digits(n \div 10) \o <<DigitChars[(n % 10) + 1]>>

\* The pieces of the strings of another string, one after the other.
RECURSIVE Concat(_)
Concat(strings) ==
    IF strings = <<>> THEN <<>> ELSE Head(strings) \o Concat(Tail(strings))

\* encodeURIComponent: a character outside A-Z a-z 0-9 - _ . ! ~ * ' ( )
\* becomes its percent code.
PercentCode(char) ==
    CASE char = "/" -> <<"%", "2", "F">>
      [] char = ":" -> <<"%", "3", "A">>
      [] char = " " -> <<"%", "2", "0">>
      [] char = "%" -> <<"%", "2", "5">>
      [] OTHER -> <<char>>

EncodeURIComponent(string) == Concat([i \in DOMAIN string |-> PercentCode(string[i])])

\* crypto.createHmac('sha256', key).update(message).digest(): HMAC-SHA256,
\* taken as injective.
Hmac(key, message) == <<"hmac-sha256", key, message>>

\* S3StorageProvider.hashHex: SHA-256, taken as injective.
HashHex(payload) == <<"sha256", payload>>

\* A URL: what stands before the "?", and the query parameters in order.
Url(location, query) == [location |-> location, query |-> query]

\* What a provider call gives: a URL, or the exception it throws.
Signed(url) == [result |-> "ok", message |-> "", url |-> {url}]
SignThrows(message) == [result |-> "BadRequest", message |-> message, url |-> {}]

\* Mutant: the signed message leaves the method out.
InMemorySignedUrlNoMethod(config, key, expiresInSeconds, method, now) ==
    LET expiresAt == now + expiresInSeconds * 1000
        signature == Hmac(config.signingSecret, key \o <<":">> \o Digits(expiresAt))
    IN  Signed(Url(<<"http", "://", "localhost", "/", "mock-storage", "/">>
                       \o EncodeURIComponent(key),
                   << <<"expires", Digits(expiresAt)>>, <<"signature", signature>> >>))

\* InMemoryStorageProvider.getSignedUrl, Date.now() being `now`.
InMemorySignedUrl(config, key, expiresInSeconds, method, now) ==
    LET expiresAt == now + expiresInSeconds * 1000
        signature == Hmac(config.signingSecret,
                          <<method, ":">> \o key \o <<":">> \o Digits(expiresAt))
    IN  Signed(Url(<<"http", "://", "localhost", "/", "mock-storage", "/">>
                       \o EncodeURIComponent(key),
                   << <<"expires", Digits(expiresAt)>>, <<"signature", signature>> >>))

\* S3StorageProvider.toAmzDate and toDateStamp: `now` counts the seconds of
\* one day.
ToDateStamp(now) == <<"20260101">>
ToAmzDate(now) == <<"20260101", "T">> \o Digits(now) \o <<"Z">>

\* S3StorageProvider.getSignatureKey
GetSignatureKey(key, dateStamp, regionName, serviceName) ==
    Hmac(Hmac(Hmac(Hmac(<<"AWS4">> \o key, dateStamp), regionName), serviceName),
         <<"aws4_request">>)

\* S3StorageProvider.buildBaseUrl: endpoint.replace(/\/$/, ''), or the
\* amazonaws.com address of the configured style.
BuildBaseUrl(s3) ==
    IF TruthyString(s3.endpoint)
    THEN LET endpoint == CHOOSE e \in s3.endpoint : TRUE
         IN  IF endpoint[Len(endpoint)] = "/"
             THEN SubSeq(endpoint, 1, Len(endpoint) - 1)
             ELSE endpoint
    ELSE IF s3.forcePathStyle
    THEN <<"https", "://", "s3", ".">> \o s3.region \o <<".", "amazonaws.com">>
    ELSE <<"https", "://">> \o s3.bucket \o <<".", "s3", ".">> \o s3.region
             \o <<".", "amazonaws.com">>

\* The lower-case form of a piece of a host name.
LowerCase(piece) == IF piece = "MinIO" THEN "minio" ELSE piece

\* new URL(url).host of an absolute URL: the authority in lower case,
\* without the port when it is the default port of the scheme.
UrlHost(url) ==
    LET start == (CHOOSE i \in DOMAIN url : url[i] = "://") + 1
        stops == {j \in start .. Len(url) : url[j] \in {"/", "?", "#"}}
        end == IF stops = {} THEN Len(url)
               ELSE (CHOOSE j \in stops : \A k \in stops : j <= k) - 1
        authority == [i \in 1 .. (end - start + 1) |-> LowerCase(url[start + i - 1])]
        defaultPort == IF url[1] = "https" THEN "443" ELSE "80"
    IN  IF /\ Len(authority) >= 3
           /\ authority[Len(authority) - 1] = ":"
           /\ authority[Len(authority)] = defaultPort
        THEN SubSeq(authority, 1, Len(authority) - 2)
        ELSE authority

\* Mutant: the host is worked out from bucket and region, whatever the
\* endpoint.
ResolveHostOfRegion(s3) ==
    IF s3.forcePathStyle
    THEN <<"s3", ".">> \o s3.region \o <<".", "amazonaws.com">>
    ELSE s3.bucket \o <<".", "s3", ".">> \o s3.region \o <<".", "amazonaws.com">>

\* S3StorageProvider.resolveHost
ResolveHost(s3) == UrlHost(BuildBaseUrl(s3))

\* S3StorageProvider.buildCanonicalUri: split('/'), encodeURIComponent of
\* every segment, join('/'): every character but "/" is encoded.
BuildCanonicalUri(bucket, key, forcePathStyle) ==
    LET encodedKey == Concat([i \in DOMAIN key |->
                                 IF key[i] = "/" THEN <<"/">> ELSE PercentCode(key[i])])
    IN  IF forcePathStyle THEN <<"/">> \o bucket \o <<"/">> \o encodedKey
        ELSE <<"/">> \o encodedKey

\* application/x-www-form-urlencoded: as a percent code, but a space
\* becomes "+".
FormEncode(string) ==
    Concat([i \in DOMAIN string |->
               IF string[i] = " " THEN <<"+">> ELSE PercentCode(string[i])])

\* URLSearchParams.toString(): name=value pairs joined by "&", the values
\* form-encoded.
RECURSIVE QueryString(_)
QueryString(params) ==
    IF params = <<>> THEN <<>>
    ELSE <<Head(params)[1], "=">> \o FormEncode(Head(params)[2])
            \o (IF Len(params) = 1 THEN <<>> ELSE <<"&">> \o QueryString(Tail(params)))

\* Mutant: only the access key id is required.
CredentialsConfiguredKeyIdOnly(s3) == TruthyString(s3.accessKeyId)

\* S3StorageProvider.getSignedUrl: !(!s3.accessKeyId || !s3.secretAccessKey)
CredentialsConfigured(s3) == TruthyString(s3.accessKeyId) /\ TruthyString(s3.secretAccessKey)

\* An optional string as a template literal prints it.
Interpolated(o) == IF o = {} THEN <<"undefined">> ELSE CHOOSE string \in o : TRUE

\* S3StorageProvider.getSignedUrl, new Date() being `now`.
S3SignedUrl(config, key, expiresInSeconds, method, now) ==
    IF ~CredentialsConfigured(config.s3)
    THEN SignThrows("S3 credentials are not configured")
    ELSE LET s3 == config.s3
             amzDate == ToAmzDate(now)
             dateStamp == ToDateStamp(now)
             host == ResolveHost(s3)
             canonicalUri == BuildCanonicalUri(s3.bucket, key, s3.forcePathStyle)
             scope == dateStamp \o <<"/">> \o s3.region \o <<"/", "s3", "/", "aws4_request">>
             credential == Interpolated(s3.accessKeyId) \o <<"/">> \o scope
             queryParams ==
                 << <<"X-Amz-Algorithm", <<"AWS4-HMAC-SHA256">> >>,
                    <<"X-Amz-Credential", credential>>,
                    <<"X-Amz-Date", amzDate>>,
                    <<"X-Amz-Expires", Digits(expiresInSeconds)>>,
                    <<"X-Amz-SignedHeaders", <<"host">> >> >>
             canonicalRequest ==
                 <<method, "\n">> \o canonicalUri \o <<"\n">> \o QueryString(queryParams)
                     \o <<"\n", "host:">> \o host
                     \o <<"\n", "\n", "host", "\n", "UNSIGNED-PAYLOAD">>
             stringToSign == <<"AWS4-HMAC-SHA256", amzDate, scope, HashHex(canonicalRequest)>>
             signingKey == GetSignatureKey(Interpolated(s3.secretAccessKey), dateStamp,
                                           s3.region, <<"s3">>)
             signature == Hmac(signingKey, stringToSign)
         IN  Signed(Url(BuildBaseUrl(s3) \o canonicalUri,
                        Append(queryParams, <<"X-Amz-Signature", signature>>)))

\* StorageConfig
S3Settings(accessKeyId, secretAccessKey, endpoint, forcePathStyle) ==
    [bucket |-> <<"propchain-documents">>, region |-> <<"us-east-1">>,
     accessKeyId |-> accessKeyId, secretAccessKey |-> secretAccessKey,
     endpoint |-> endpoint, forcePathStyle |-> forcePathStyle]

StorageConfig(s3) ==
    [signedUrlExpiresInSeconds |-> SignedUrlExpiresInSeconds,
     signingSecret |-> <<"local-storage-signing-secret">>,
     s3 |-> s3]

AccessKeyId == {<<"AKIA">>}
SecretAccessKey == {<<"secret">>}

\* S3_ENDPOINT: unset, empty, a local store, a store on the default port.
Endpoints ==
    { {}, {<<>>},
      {<<"http", "://", "MinIO", ":", "9000", "/">>},
      {<<"https", "://", "store.example", ":", "443">>} }

\* Configurations with both credentials, and with one or both of them
\* missing or empty.
StorageConfigs ==
    { StorageConfig(S3Settings(AccessKeyId, SecretAccessKey, endpoint, forcePathStyle)) :
          endpoint \in Endpoints, forcePathStyle \in BOOLEAN }
    \cup { StorageConfig(S3Settings({}, SecretAccessKey, {}, FALSE)),
           StorageConfig(S3Settings(AccessKeyId, {}, {}, TRUE)),
           StorageConfig(S3Settings(AccessKeyId, {<<>>}, {<<"http", "://", "MinIO", ":", "9000", "/">>}, TRUE)),
           StorageConfig(S3Settings({}, {}, {}, FALSE)) }

\* Object keys.
SignKeys ==
    { <<"a">>, <<"a", "/", "b">>, <<"a", ":", "1">> }

UploadKeys == { <<"a">> }

Expiries == {0 - 60, 0, 1, SignedUrlExpiresInSeconds}

Methods == {"GET", "PUT"}

\* The StorageProvider interface: getSignedUrl of the provider in use.
SignedUrlOf(provider, config, key, expiresInSeconds, method, now) ==
    IF provider = "memory"
    THEN InMemorySignedUrl(config, key, expiresInSeconds, method, now)
    ELSE S3SignedUrl(config, key, expiresInSeconds, method, now)

\* The outcome of a provider call: `url` is the URL it returns, `puts` are
\* the URLs it has sent a PUT request to.
ProviderOutcome(provider, op, config, key, expiresInSeconds, method, now, outcome, puts) ==
    [op |-> op, provider |-> provider, config |-> config, key |-> key,
     expiresInSeconds |-> expiresInSeconds, method |-> method, now |-> now,
     result |-> outcome.result, message |-> outcome.message, url |-> outcome.url,
     puts |-> puts]

\* provider.getSignedUrl(key, expiresInSeconds, method)
ProviderGetSignedUrl(provider, config, key, expiresInSeconds, method) ==
    /\ last' = ProviderOutcome(provider, "getSignedUrl", config, key, expiresInSeconds,
                               method, clock,
                               SignedUrlOf(provider, config, key, expiresInSeconds,
                                           method, clock),
                               {})
    /\ UNCHANGED <<documents, objects, nextId, clock, calls>>

\* S3StorageProvider.uploadObject.  `ok`: the PUT succeeds.
S3UploadObject(config, key, buffer, ok) ==
    LET signed == S3SignedUrl(config, key, config.signedUrlExpiresInSeconds, "PUT", clock)
        Outcome(outcome, puts) ==
            ProviderOutcome("s3", "uploadObject", config, key,
                            config.signedUrlExpiresInSeconds, "PUT", clock, outcome, puts)
    IN  /\ UNCHANGED <<documents, nextId, clock, calls>>
        /\ IF signed.result # "ok"
           THEN /\ ok
                /\ last' = Outcome(signed, {})
                /\ UNCHANGED objects
           ELSE IF ok
           THEN /\ objects' = UploadObject(objects, key, buffer)
                /\ last' = Outcome([result |-> "ok", message |-> "", url |-> {}], signed.url)
           ELSE /\ last' = Outcome(SignThrows("Failed to upload document to storage"),
                                   signed.url)
                /\ UNCHANGED objects

\* Time passes: Date.now() grows.
Tick ==
    /\ clock < MaxClock
    /\ clock' = clock + 1
    /\ UNCHANGED <<documents, objects, nextId, calls, last>>

----------------------------------------------------------------------------
(* Specifications *)

\* A call that starts takes the first free slot.
FreeCalls ==
    LET free == CallIds \ InFlight
    IN  {c \in free : \A k \in free : c <= k}

\* The calls a client makes, with arguments drawn from the universe U.
Calls(U) ==
    \/ \E c \in FreeCalls, files \in U.fileLists, input \in U.uploadInputs, ctx \in U.contexts :
           UploadDocuments(U.seq, c, files, input, ctx)
    \/ \E c \in FreeCalls, id \in U.docIds, file \in U.files, ctx \in U.contexts :
           AddDocumentVersion(U.seq, c, id, file, ctx)
    \/ \E id \in U.docIds, input \in U.updateInputs, ctx \in U.contexts :
           UpdateMetadata(U.seq, id, input, ctx)
    \/ \E id \in U.docIds, ctx \in U.contexts : GetDocument(U.seq, id, ctx)
    \/ \E filters \in U.filters, ctx \in U.contexts : ListDocuments(U.seq, filters, ctx)
    \/ \E id \in U.docIds, n \in U.versionArgs, ctx \in U.contexts :
           GetDownloadUrl(U.seq, id, n, ctx)

\* The steps of the calls in flight.
Steps ==
    \/ \E c \in CallIds, ok \in BOOLEAN : CreateVersionUpload(c, ok)
    \/ \E c \in CallIds, made \in BOOLEAN, ok \in BOOLEAN : MaybeGenerateThumbnail(c, made, ok)
    \/ \E c \in CallIds : AppendVersion(c)
    \/ \E c \in CallIds : StoreRecord(c)

Context(userId, roles) == [userId |-> userId, roles |-> roles]

\* Versions and storage: every kind of file, callers who may write.
\* Every call runs to completion before the next one starts.
SeqUniverse ==
    [ seq |-> TRUE,
      files |-> Files,
      fileLists |-> {<<>>} \cup {<<f>> : f \in Files}
                       \cup {<<f, g>> : f \in {PdfA, Infected}, g \in {PdfA, Infected}},
      uploadInputs |-> { MetadataInput({}, {}, {}, {}),
                         MetadataInput({"u2"}, {}, {}, {}),
                         MetadataInput({}, {"PUBLIC"}, {}, {{"AGENT"}}) },
      updateInputs |-> { MetadataInput({}, {"RESTRICTED"}, {}, {}) },
      contexts |-> { Context("u1", {}), Context("u2", {"AGENT"}), Context("", {}) },
      docIds |-> 0 .. MaxDocs,
      filters |-> {NoFilters},
      versionArgs |-> {{}, {1}} ]

SeqNext == Calls(SeqUniverse) \/ Steps
SeqSpec == Init /\ [][SeqNext]_vars

\* Access control: every caller, every access policy, plain files.
\* Every call runs to completion before the next one starts.
AccessUniverse ==
    [ seq |-> TRUE,
      files |-> {PdfA, PdfB, TextFile},
      fileLists |-> {<<PdfA>>},
      uploadInputs |-> UploadInputs,
      updateInputs |-> UpdateInputs,
      contexts |-> Contexts,
      docIds |-> 0 .. MaxDocs,
      filters |-> Filters,
      versionArgs |-> VersionArgs ]

AccessNext == Calls(AccessUniverse) \/ Steps
AccessSpec == Init /\ [][AccessNext]_vars

\* Calls overlap: the steps of the calls in flight interleave.
Universe ==
    [ seq |-> FALSE,
      files |-> {PdfA, PdfB, Photo},
      fileLists |-> {<<PdfA>>},
      uploadInputs |-> { MetadataInput({}, {}, {}, {}) },
      updateInputs |-> { MetadataInput({}, {"PUBLIC"}, {}, {}) },
      contexts |-> { Context("u1", {}), Context("u2", {}) },
      docIds |-> 1 .. MaxDocs,
      filters |-> {NoFilters},
      versionArgs |-> {{}, {1}} ]

Next == Calls(Universe) \/ Steps
Spec == Init /\ [][Next]_vars

\* Metadata: uploads with every field set, partial updates handed to the
\* service directly and PATCH requests through the controller.
\* Every call runs to completion before the next one starts.
FullInput ==
    Literal([EmptyInput EXCEPT
                !.propertyId = {"p1"}, !.type = {"PHOTO"}, !.title = {"Front"},
                !.description = {"the front"}, !.tags = {<<" deed ">>},
                !.accessLevel = {"RESTRICTED"}, !.allowedUserIds = {{"u2"}},
                !.allowedRoles = {{"AGENT"}}, !.customFields = {("floor" :> "1")}])

MetaUniverse ==
    [ seq |-> TRUE,
      files |-> {PdfB},
      fileLists |-> {<<PdfA>>},
      uploadInputs |-> { FullInput, MetadataInput({}, {"PUBLIC"}, {}, {{"AGENT"}}) },
      updateInputs |-> { EmptyInput,
                         Literal([EmptyInput EXCEPT !.title = {"Back"}]),
                         Literal([EmptyInput EXCEPT !.title = {""}, !.tags = {<<" ">>}]),
                         Literal([EmptyInput EXCEPT !.type = {"DEED"}]),
                         MetadataInput({"u2"}, {}, {}, {}),
                         MetadataInput({""}, {}, {}, {}),
                         [EmptyInput EXCEPT !.keys = {"uploadedBy"}] },
      contexts |-> { Context("u1", {}), Context("u2", {"AGENT"}), Context("u2", {}) },
      docIds |-> 0 .. MaxDocs,
      filters |-> {NoFilters},
      versionArgs |-> {{}} ]

\* The PATCH bodies: nothing, a new title, new tags.
PatchBodies ==
    { EmptyBody,
      [EmptyBody EXCEPT !.title = {"Back"}],
      [EmptyBody EXCEPT !.tags = {<<" deed ", " ">>}, !.customFields = {JsonText({})}] }

ControllerCalls ==
    \E id \in 0 .. MaxDocs, body \in PatchBodies, userId \in Users,
       rolesHeader \in {{}, {<<"AGENT">>}} :
        PatchMetadata(TRUE, id, body, userId, rolesHeader)

MetaNext == Calls(MetaUniverse) \/ Steps \/ ControllerCalls
MetaSpec == Init /\ [][MetaNext]_vars

\* Appends to one record overlap with each other and with reads.
AppendNext ==
    \/ \E c \in FreeCalls :
           /\ nextId = 1
           /\ UploadDocuments(FALSE, c, <<PdfA>>, MetadataInput({}, {}, {}, {}),
                              Context("u1", {}))
    \/ \E c \in FreeCalls :
           /\ clock < MaxWrites
           /\ AddDocumentVersionStart(FALSE, c, 1, PdfB, Context("u1", {}))
    \/ GetDocument(FALSE, 1, Context("u1", {}))
    \/ ListDocuments(FALSE, NoFilters, Context("u1", {}))
    \/ \E n \in {{}, {2}} : GetDownloadUrl(FALSE, 1, n, Context("u1", {}))
    \/ Steps

AppendSpec == Init /\ [][AppendNext]_vars

\* Two records made by one upload; versions are appended to them and their
\* metadata is updated by their owner and by a stranger, the calls overlap.
ParallelNext ==
    \/ \E c \in FreeCalls :
           /\ nextId = 1
           /\ UploadDocuments(FALSE, c, <<PdfA, PdfB>>, MetadataInput({}, {}, {}, {}),
                              Context("u1", {}))
    \/ \E c \in FreeCalls, id \in 1 .. MaxDocs, file \in {PdfB, TextFile},
          ctx \in {Context("u1", {}), Context("u2", {})} :
           /\ clock < MaxWrites
           /\ id \in DOMAIN documents => documents[id].currentVersion < MaxVersions
           /\ AddDocumentVersionStart(FALSE, c, id, file, ctx)
    \/ \E id \in 1 .. MaxDocs, ctx \in {Context("u1", {}), Context("u2", {})} :
           /\ clock < MaxWrites
           /\ UpdateMetadataCall(FALSE, id, MetadataInput({}, {"PUBLIC"}, {}, {}), ctx)
    \/ Steps

ParallelSpec == Init /\ [][ParallelNext]_vars

\* Listing: records that differ in every field a filter looks at, filters of
\* every kind, alone and combined, empty and in another case.
\* Every call runs to completion before the next one starts.
ListFilters ==
    { NoFilters,
      [NoFilters EXCEPT !.propertyId = {"p1"}],
      [NoFilters EXCEPT !.propertyId = {""}, !.uploadedBy = {""}, !.tag = {""},
                        !.search = {""}, !.mimeType = {<<>>}],
      [NoFilters EXCEPT !.type = {"PHOTO"}],
      [NoFilters EXCEPT !.type = {"OTHER"}, !.accessLevel = {"PRIVATE"}],
      [NoFilters EXCEPT !.accessLevel = {"RESTRICTED"}, !.uploadedBy = {"u1"}],
      [NoFilters EXCEPT !.uploadedBy = {"u2"}],
      [NoFilters EXCEPT !.mimeType = {<<"application", "pdf">>}],
      [NoFilters EXCEPT !.mimeType = {<<"image", "webp">>}, !.propertyId = {"p1"}],
      [NoFilters EXCEPT !.createdAfter = {2}],
      [NoFilters EXCEPT !.createdBefore = {1}],
      [NoFilters EXCEPT !.createdAfter = {1}, !.createdBefore = {1}],
      [NoFilters EXCEPT !.createdAfter = {2}, !.createdBefore = {1}],
      [NoFilters EXCEPT !.tag = {"DEED"}],
      [NoFilters EXCEPT !.tag = {"front"}],
      [NoFilters EXCEPT !.search = {"FRONT"}],
      [NoFilters EXCEPT !.search = {"Front The"}],
      [NoFilters EXCEPT !.search = {"deed"}, !.type = {"PHOTO"}],
      [NoFilters EXCEPT !.search = {"untitled document"}, !.createdAfter = {2}] }

ListUniverse ==
    [ seq |-> TRUE,
      files |-> {Photo},
      fileLists |-> {<<PdfA>>},
      uploadInputs |-> { FullInput, MetadataInput({}, {}, {}, {}) },
      updateInputs |-> { Literal([EmptyInput EXCEPT !.accessLevel = {"PUBLIC"}]) },
      contexts |-> { Context("u1", {}), Context("u2", {}), Context("", {}) },
      docIds |-> 1 .. MaxDocs,
      filters |-> ListFilters,
      versionArgs |-> {{}} ]

ListNext == Calls(ListUniverse) \/ Steps
ListSpec == Init /\ [][ListNext]_vars

\* The storage providers on their own: URLs are signed and objects are
\* uploaded under every configuration.
SignNext ==
    \/ \E key \in SignKeys, expiresInSeconds \in Expiries, method \in Methods :
           ProviderGetSignedUrl("memory", StorageConfig(S3Settings({}, {}, {}, FALSE)),
                                key, expiresInSeconds, method)
    \/ \E config \in StorageConfigs, key \in SignKeys, expiresInSeconds \in Expiries,
          method \in Methods :
           ProviderGetSignedUrl("s3", config, key, expiresInSeconds, method)
    \/ \E config \in StorageConfigs, key \in UploadKeys, ok \in BOOLEAN :
           S3UploadObject(config, key, PdfA.buffer, ok)
    \/ Tick

SignSpec == Init /\ [][SignNext]_vars

----------------------------------------------------------------------------
(* Versions and storage, calls one after the other (SeqSpec) *)

\* C1: after any sequence of uploadDocuments, addDocumentVersion and
\* updateMetadata calls, successful or failed, each completed before the next
\* starts, every record's version numbers are exactly 1..currentVersion in
\* order, without gap or duplicate, and currentVersion is the number of the
\* entry appended last.
VersionsContiguous ==
    \A id \in DOMAIN documents :
        LET d == documents[id]
        IN  /\ Len(d.versions) >= 1
            /\ \A i \in DOMAIN d.versions : d.versions[i].version = i
            /\ d.currentVersion = Len(d.versions)
            /\ d.currentVersion = d.versions[Len(d.versions)].version

\* C1 witness: a second version has just been appended.
VersionsContiguousWitness ==
    /\ last.op = "addDocumentVersion"
    /\ last.result = "ok"
    /\ Len(documents[last.docId].versions) = 2
    /\ documents[last.docId].currentVersion = 2

\* uploadObject throws in call c during this step (the scan had passed).
UploadObjectThrows(c) ==
    /\ calls[c].pc = "upload"
    /\ ScanForVirus(CurrentFile(calls[c]).buffer)
    /\ calls'[c].pc = "idle"

\* C6: a version entry is in a record only after uploadObject has stored its
\* storageKey: every entry's storageKey is in storage; when uploadObject
\* throws, addDocumentVersion leaves the record's versions, currentVersion and
\* updatedAt as they were and uploadDocuments creates no record for that file.
AppendedOnlyAfterUpload ==
    /\ [](\A id \in DOMAIN documents : \A i \in DOMAIN documents[id].versions :
              documents[id].versions[i].storageKey \in DOMAIN objects)
    /\ [][\A c \in CallIds : UploadObjectThrows(c) =>
              /\ last'.result = "BadRequest"
              /\ calls[c].op = "add" =>
                    /\ documents'[calls[c].docId].versions = documents[calls[c].docId].versions
                    /\ documents'[calls[c].docId].currentVersion
                           = documents[calls[c].docId].currentVersion
                    /\ documents'[calls[c].docId].updatedAt
                           = documents[calls[c].docId].updatedAt
              /\ calls[c].op = "upload" =>
                    /\ calls[c].docId \notin DOMAIN documents'
                    /\ DOMAIN documents' = DOMAIN documents]_vars

\* C6 witness: uploadObject threw in an addDocumentVersion on a record that
\* still has its one version.
AppendedOnlyAfterUploadWitness ==
    /\ last.op = "addDocumentVersion"
    /\ last.message = "Failed to upload document to storage"
    /\ Len(documents[last.docId].versions) = 1
    /\ BuildStorageKey(last.docId, 2, PdfA.originalname) \notin DOMAIN objects

\* C7: an uploadDocuments call one of whose files carries the malicious test
\* signature fails with BadRequest (InvalidRequest), and the store holds no
\* record that the call has created.
InfectedUploadStoresNothing ==
    [][\A c \in CallIds :
          ( /\ calls[c].op = "upload"
            /\ calls'[c].pc = "idle"
            /\ \E i \in DOMAIN calls[c].files : ~ScanForVirus(calls[c].files[i].buffer) )
          => /\ last'.result = "BadRequest"
             /\ last'.ids = {}
             /\ calls[c].results = {}]_vars

\* C8: for every version entry of every record, the hash of the bytes storage
\* holds under the entry's storageKey is the entry's checksum.
ChecksumRoundTrip ==
    \A id \in DOMAIN documents : \A i \in DOMAIN documents[id].versions :
        LET entry == documents[id].versions[i]
        IN  /\ entry.storageKey \in DOMAIN objects
            /\ HashBuffer(objects[entry.storageKey]) = entry.checksum

\* C9: the versions list is append-only: every step of every operation leaves
\* each existing entry where it was, unchanged, and changes the list at most
\* by adding one entry at its end; no record disappears.
VersionsAppendOnly ==
    [][\A id \in DOMAIN documents :
          /\ id \in DOMAIN documents'
          /\ LET old == documents[id].versions
                 new == documents'[id].versions
             IN  \/ new = old
                 \/ /\ Len(new) = Len(old) + 1
                    /\ SubSeq(new, 1, Len(old)) = old]_vars

\* C9 witness: a record with two versions whose first entry is the one
\* uploadDocuments made, read after the append.
VersionsAppendOnlyWitness ==
    /\ last.op = "getDownloadUrl"
    /\ last.result = "ok"
    /\ Len(documents[last.docId].versions) = 2
    /\ documents[last.docId].versions[1].createdAt = documents[last.docId].createdAt
    /\ documents[last.docId].versions[2].createdAt > documents[last.docId].createdAt

----------------------------------------------------------------------------
(* Access control, calls one after the other (AccessSpec) *)

\* C2: on a PRIVATE record every caller other than its uploadedBy is denied
\* by getDocument, getDownloadUrl, addDocumentVersion and updateMetadata (an
\* identified caller with Forbidden or NotFound), and listDocuments does not
\* return the record to that caller, whatever roles the caller holds and
\* whatever allowedUserIds and allowedRoles the record carries.
PrivateOnlyForUploader ==
    [][\A id \in DOMAIN documents :
          ( /\ documents[id].metadata.accessLevel = "PRIVATE"
            /\ last'.result # "pending"
            /\ last'.ctx.userId # documents[id].metadata.uploadedBy )
          => /\ ( /\ last'.op \in {"getDocument", "getDownloadUrl",
                                   "addDocumentVersion", "updateMetadata"}
                  /\ last'.docId = id )
                => /\ last'.result # "ok"
                   /\ last'.url = {}
                   /\ last'.ctx.userId # "" => last'.result \in {"Forbidden", "NotFound"}
             /\ last'.op = "listDocuments" => id \notin last'.ids]_vars

\* C2 witness: a caller named in allowedUserIds and holding a role of
\* allowedRoles was refused a new version of a PRIVATE record.
PrivateOnlyForUploaderWitness ==
    /\ last.op = "addDocumentVersion"
    /\ last.result = "Forbidden"
    /\ documents[last.docId].metadata.accessLevel = "PRIVATE"
    /\ last.ctx.userId \in documents[last.docId].metadata.allowedUserIds
    /\ last.ctx.roles \cap documents[last.docId].metadata.allowedRoles # {}

\* C3: on a RESTRICTED record getDocument succeeds for a caller iff the caller
\* is the uploadedBy, or is in allowedUserIds, or holds a role of allowedRoles;
\* every other caller gets Forbidden.
RestrictedReadableByAcl ==
    ( /\ last.op = "getDocument"
      /\ last.ctx.userId # ""
      /\ last.docId \in DOMAIN documents
      /\ documents[last.docId].metadata.accessLevel = "RESTRICTED" )
    => LET m == documents[last.docId].metadata
           allowed == \/ last.ctx.userId = m.uploadedBy
                      \/ last.ctx.userId \in m.allowedUserIds
                      \/ last.ctx.roles \cap m.allowedRoles # {}
       IN  IF allowed THEN last.result = "ok" /\ last.ids = {last.docId}
                      ELSE last.result = "Forbidden" /\ last.ids = {}

\* C3 witness: a caller who is neither the uploader nor an allowed user read a
\* RESTRICTED record through a role.
RestrictedReadableByAclWitness ==
    /\ last.op = "getDocument"
    /\ last.result = "ok"
    /\ documents[last.docId].metadata.accessLevel = "RESTRICTED"
    /\ last.ctx.userId # documents[last.docId].metadata.uploadedBy
    /\ last.ctx.userId \notin documents[last.docId].metadata.allowedUserIds
    /\ last.ctx.roles \cap documents[last.docId].metadata.allowedRoles # {}

\* C4 as claimed: uploader, or a role of allowedRoles.
OwnerOrRole(document, context) ==
    \/ context.userId = document.metadata.uploadedBy
    \/ context.roles \cap document.metadata.allowedRoles # {}

\* C4 as amended: uploader, or a role of allowedRoles on a record that is not
\* PRIVATE.
OwnerOrRoleOfReadable(document, context) ==
    \/ context.userId = document.metadata.uploadedBy
    \/ /\ document.metadata.accessLevel \in {"RESTRICTED", "PUBLIC"}
       /\ context.roles \cap document.metadata.allowedRoles # {}

\* How this step decides the authorization of addDocumentVersion and
\* updateMetadata on an existing record for an identified caller: the call
\* goes on past the check iff the caller is allowed, else it ends Forbidden.
WriteAuthorization(asClaimed) ==
    LET Allowed(document, context) ==
            IF asClaimed THEN OwnerOrRole(document, context)
                         ELSE OwnerOrRoleOfReadable(document, context)
    IN  /\ \A c \in CallIds :
              (calls[c].pc = "idle" /\ calls'[c].op = "add")
              => Allowed(documents[calls'[c].docId], calls'[c].ctx)
        /\ ( /\ last'.op \in {"addDocumentVersion", "updateMetadata"}
             /\ last'.result # "pending"
             /\ last'.ctx.userId # ""
             /\ last'.docId \in DOMAIN documents )
           => ( last'.result # "Forbidden"
                  <=> Allowed(documents[last'.docId], last'.ctx) )

\* C4 as claimed: addDocumentVersion and updateMetadata pass the authorization
\* check exactly when the caller is the uploadedBy or holds a role of
\* allowedRoles, at every access level; every other caller gets Forbidden.
WriteByOwnerOrRole == [][WriteAuthorization(TRUE)]_vars

\* C4 as amended: they pass the authorization check exactly when the caller is
\* the uploadedBy, or the record is RESTRICTED or PUBLIC and the caller holds
\* a role of allowedRoles; every other caller gets Forbidden.
WriteByOwnerOrRoleOfReadable == [][WriteAuthorization(FALSE)]_vars

\* C4 witness: a caller holding a role of allowedRoles was refused an update
\* of a PRIVATE record, at the read check.
WriteByOwnerOrRoleOfReadableWitness ==
    /\ last.op = "updateMetadata"
    /\ last.message = "You do not have permission to access this document"
    /\ documents[last.docId].metadata.accessLevel = "PRIVATE"
    /\ last.ctx.roles \cap documents[last.docId].metadata.allowedRoles # {}

\* C10: for a caller with read access getDownloadUrl signs a GET URL for the
\* storageKey of the entry numbered n, or numbered currentVersion when n is
\* absent, however many versions came later; when no entry is numbered n it
\* fails with NotFound and issues no URL.
DownloadUrlOfRequestedVersion ==
    ( /\ last.op = "getDownloadUrl"
      /\ last.ctx.userId # ""
      /\ last.docId \in DOMAIN documents
      /\ HasReadAccess(documents[last.docId], last.ctx) )
    => LET d == documents[last.docId]
           n == IF last.version = {} THEN d.currentVersion
                                     ELSE CHOOSE k \in last.version : TRUE
           entries == {i \in DOMAIN d.versions : d.versions[i].version = n}
       IN  IF entries = {}
           THEN last.result = "NotFound" /\ last.url = {}
           ELSE /\ last.result = "ok"
                /\ \A i \in entries :
                      last.url = {[key |-> d.versions[i].storageKey, method |-> "GET",
                                   expiresIn |-> SignedUrlExpiresInSeconds]}

\* C10 witness: after a second version was added, the URL asked for version 1
\* names the storageKey of version 1, which is not that of version 2.
DownloadUrlOfRequestedVersionWitness ==
    /\ last.op = "getDownloadUrl"
    /\ last.version = {1}
    /\ last.result = "ok"
    /\ Len(documents[last.docId].versions) = 2
    /\ \A u \in last.url : /\ u.key = documents[last.docId].versions[1].storageKey
                           /\ u.key # documents[last.docId].versions[2].storageKey

----------------------------------------------------------------------------
(* Overlapping calls (Spec) *)

\* C5: overlapping addDocumentVersion calls on one record take effect one at
\* a time: once all have completed, the record's version numbers are exactly
\* 1..currentVersion without duplicate and no two entries share a storageKey.
OverlappingAppendsSerialized ==
    InFlight = {} =>
        \A id \in DOMAIN documents :
            LET d == documents[id]
            IN  /\ \A i \in DOMAIN d.versions : d.versions[i].version = i
                /\ d.currentVersion = Len(d.versions)
                /\ \A i, j \in DOMAIN d.versions :
                      i # j => d.versions[i].storageKey # d.versions[j].storageKey

----------------------------------------------------------------------------
(* Metadata updates (MetaSpec) *)

\* The step is a successful updateMetadata call.
UpdateSucceeds ==
    /\ last'.op = "updateMetadata"
    /\ last'.result = "ok"
    /\ clock' # clock

\* The step is a successful addDocumentVersion call returning.
AppendSucceeds ==
    /\ last'.op = "addDocumentVersion"
    /\ last'.result = "ok"
    /\ clock' # clock

\* The metadata fields updateMetadata merges.
MergedFields ==
    {"title", "description", "propertyId", "tags", "accessLevel", "allowedUserIds",
     "allowedRoles", "customFields"}

\* C11: updateMetadata merges partial input into the existing metadata:
\* every metadata field for which the request supplies no value keeps its
\* previous value, when the service is called directly and when the request
\* comes through the controller's PATCH handler with the field omitted.
UpdateMergesPartialInput ==
    [][ UpdateSucceeds =>
          \A field \in MergedFields :
              last'.input[field] = {}
              => documents'[last'.docId].metadata[field]
                     = documents[last'.docId].metadata[field] ]_vars

\* C12: updateMetadata with an input that supplies no owner override leaves
\* uploadedBy as it was, for every caller with write access; uploadedBy
\* changes only when the input supplies a new owner id, and then becomes
\* exactly that id.
OwnerPreservedWithoutOverride ==
    [][ UpdateSucceeds =>
          documents'[last'.docId].metadata.uploadedBy
              = IF Truthy(last'.input.uploadedBy)
                THEN CHOOSE owner \in last'.input.uploadedBy : TRUE
                ELSE documents[last'.docId].metadata.uploadedBy ]_vars

\* What every write leaves alone in the record it writes to.
SameIdentity(before, after) ==
    /\ after.id = before.id
    /\ after.status = before.status
    /\ after.createdAt = before.createdAt

\* A successful addDocumentVersion changes only versions, currentVersion and
\* updatedAt of its record, and no other record.
AppendWritesVersionsOnly ==
    AppendSucceeds =>
        /\ \A id \in DOMAIN documents \ {last'.docId} : documents'[id] = documents[id]
        /\ SameIdentity(documents[last'.docId], documents'[last'.docId])
        /\ documents'[last'.docId].type = documents[last'.docId].type
        /\ documents'[last'.docId].metadata = documents[last'.docId].metadata

\* C13 as claimed: a successful updateMetadata changes only the metadata of
\* the record: id, type, status, createdAt, updatedAt, versions and
\* currentVersion are as before; a successful addDocumentVersion changes
\* only versions, currentVersion and updatedAt.
UpdateWritesMetadataOnly ==
    [][ /\ AppendWritesVersionsOnly
        /\ UpdateSucceeds =>
              LET before == documents[last'.docId]
                  after == documents'[last'.docId]
              IN  /\ SameIdentity(before, after)
                  /\ after.type = before.type
                  /\ after.updatedAt = before.updatedAt
                  /\ after.versions = before.versions
                  /\ after.currentVersion = before.currentVersion ]_vars

\* C13 as amended: a successful updateMetadata changes only the metadata,
\* the updatedAt and, when the input names a type, the type of the record:
\* id, status, createdAt, versions and currentVersion are as before, and the
\* type is the input's type or else as before; a successful
\* addDocumentVersion changes only versions, currentVersion and updatedAt.
UpdateWritesMetadataTypeAndUpdatedAt ==
    [][ /\ AppendWritesVersionsOnly
        /\ UpdateSucceeds =>
              LET before == documents[last'.docId]
                  after == documents'[last'.docId]
              IN  /\ \A id \in DOMAIN documents \ {last'.docId} :
                         documents'[id] = documents[id]
                  /\ SameIdentity(before, after)
                  /\ after.type = IF Truthy(last'.input.type)
                                  THEN CHOOSE type \in last'.input.type : TRUE
                                  ELSE before.type
                  /\ after.versions = before.versions
                  /\ after.currentVersion = before.currentVersion ]_vars

\* C13 witness: an updateMetadata that named no type has succeeded on a
\* record created earlier: the record has its type and its one version,
\* and its updatedAt is later than its createdAt.
UpdateWritesMetadataTypeAndUpdatedAtWitness ==
    /\ last.op = "updateMetadata"
    /\ last.result = "ok"
    /\ last.input.type = {}
    /\ last.input.title = {"Back"}
    /\ documents[last.docId].type = "PHOTO"
    /\ documents[last.docId].metadata.title = "Back"
    /\ documents[last.docId].updatedAt > documents[last.docId].createdAt
    /\ Len(documents[last.docId].versions) = 1

----------------------------------------------------------------------------
(* Rejected files (SeqSpec) *)

\* The messages a file is rejected with.
FileRejections ==
    {"Unsupported file type", "File exceeds maximum allowed size", "File failed virus scan"}

\* The bytes carry the malicious test signature.
CarriesSignature(buffer) == \E i \in DOMAIN buffer : buffer[i] = VirusSignature

\* The object table holds nothing for version n of the document id.
NothingStoredFor(objs, id, n) == \A key \in DOMAIN objs : ~(key[2] = id /\ key[3] = n)

\* C14: in uploadDocuments and addDocumentVersion a file rejected for a
\* missing caller id, a MIME type outside the allowed list, a size above the
\* maximum or a malicious-signature match is rejected with BadRequest
\* (InvalidRequest) before any uploadObject call for it: the rejection leaves
\* the object table as it was, appends no version and creates no record for
\* the file, and nothing of such a file is ever in storage or in a record.
RejectedBeforeUpload ==
    /\ [](/\ \A key \in DOMAIN objects : ~CarriesSignature(objects[key])
          /\ \A id \in DOMAIN documents : \A i \in DOMAIN documents[id].versions :
                 LET entry == documents[id].versions[i]
                 IN  /\ entry.mimeType \in AllowedMimeTypes
                     /\ entry.size <= MaxFileSizeBytes
                     /\ entry.uploadedBy # "")
    /\ [][ ( /\ last'.op \in {"uploadDocuments", "addDocumentVersion"}
             /\ last'.message \in FileRejections \cup {"User context is required"} )
           => /\ last'.result = "BadRequest"
              /\ objects' = objects
              /\ last'.message = "User context is required"
                    => documents' = documents /\ nextId' = nextId
              /\ last'.op = "addDocumentVersion"
                    => /\ documents' = documents
                       /\ last'.docId \in DOMAIN documents
                             => NothingStoredFor(objects', last'.docId,
                                                 documents[last'.docId].currentVersion + 1)
              /\ ( last'.op = "uploadDocuments" /\ last'.message \in FileRejections )
                    => /\ nextId' - 1 \notin DOMAIN documents'
                       /\ NothingStoredFor(objects', nextId' - 1, 1) ]_vars

\* C14 witness: a new version whose bytes carry the signature was refused
\* on a record that has its one version, and storage holds nothing for
\* version 2.
RejectedBeforeUploadWitness ==
    /\ last.op = "addDocumentVersion"
    /\ last.message = "File failed virus scan"
    /\ last.result = "BadRequest"
    /\ Len(documents[last.docId].versions) = 1
    /\ NothingStoredFor(objects, last.docId, 2)
    /\ DOMAIN objects # {}

----------------------------------------------------------------------------
(* Refused writes and allow-lists (AccessSpec) *)

\* The caller neither is the uploader nor passes both access checks through
\* a role: the read check fails on a PRIVATE record, the write check without
\* a role of allowedRoles.
FailsAccessCheck(document, context) ==
    /\ context.userId # document.metadata.uploadedBy
    /\ \/ document.metadata.accessLevel = "PRIVATE"
       \/ context.roles \cap document.metadata.allowedRoles = {}

\* C15: an addDocumentVersion or updateMetadata call by a caller who fails
\* the read or write access check ends with Forbidden and leaves the record
\* and the object table exactly as before; the check is decided before
\* validation, scan and upload, so no upload is started whatever the file.
ForbiddenWriteChangesNothing ==
    [][ /\ \A c \in CallIds :
              ( /\ calls[c].pc = "idle"
                /\ calls'[c].op = "add"
                /\ calls'[c].ctx.userId # "" )
              => ~FailsAccessCheck(documents[calls'[c].docId], calls'[c].ctx)
        /\ ( /\ last'.op \in {"addDocumentVersion", "updateMetadata"}
             /\ last'.result # "pending"
             /\ last'.ctx.userId # ""
             /\ last'.docId \in DOMAIN documents
             /\ FailsAccessCheck(documents[last'.docId], last'.ctx) )
           => last'.result = "Forbidden"
        /\ ( /\ last'.op \in {"addDocumentVersion", "updateMetadata"}
             /\ last'.result = "Forbidden" )
           => UNCHANGED <<documents, objects, calls, nextId, clock>> ]_vars

\* C15 witness: a caller who may read a PUBLIC record but holds no role of
\* its allowedRoles was refused a new version; the record has its one
\* version and storage holds nothing for version 2.
ForbiddenWriteChangesNothingWitness ==
    /\ last.op = "addDocumentVersion"
    /\ last.result = "Forbidden"
    /\ last.message = "You do not have permission to update this document"
    /\ documents[last.docId].metadata.accessLevel = "PUBLIC"
    /\ Len(documents[last.docId].versions) = 1
    /\ \A key \in DOMAIN objects : ~(key[2] = last.docId /\ key[3] = 2)

\* Identified callers.
Callers == {context \in Contexts : context.userId # ""}

\* Two records of the same access level, PUBLIC or PRIVATE, that differ in
\* nothing but allowedUserIds and allowedRoles that bears on access.
DifferInAllowListsOnly(a, b) ==
    /\ a.metadata.accessLevel = b.metadata.accessLevel
    /\ a.metadata.accessLevel \in {"PUBLIC", "PRIVATE"}
    /\ a.metadata.uploadedBy = b.metadata.uploadedBy
    /\ \/ a.metadata.allowedUserIds # b.metadata.allowedUserIds
       \/ a.metadata.allowedRoles # b.metadata.allowedRoles

\* getDocument, getDownloadUrl and listDocuments decide the same on a and b.
SameReadOutcome(a, b, context) ==
    /\ GetDocumentResult(a, context) = "ok" <=> GetDocumentResult(b, context) = "ok"
    /\ a \in ListDocumentsResult(NoFilters, context)
           <=> b \in ListDocumentsResult(NoFilters, context)

\* addDocumentVersion and updateMetadata decide the same on a and b.
SameWriteOutcome(a, b, context) ==
    GetDocumentForUpdateResult(a, context) = "ok"
        <=> GetDocumentForUpdateResult(b, context) = "ok"

\* C16 as claimed: allowedUserIds and allowedRoles bear on access only for
\* RESTRICTED records: on two records both PUBLIC or both PRIVATE that
\* differ only in them, every operation by the same caller has the same
\* allow/deny outcome.
AllowListsOnlyForRestricted ==
    \A a \in DOMAIN documents, b \in DOMAIN documents, context \in Callers :
        DifferInAllowListsOnly(documents[a], documents[b])
        => SameReadOutcome(a, b, context) /\ SameWriteOutcome(a, b, context)

\* C16 as amended: on two records both PUBLIC or both PRIVATE that differ
\* only in allowedUserIds and allowedRoles, getDocument, listDocuments and
\* getDownloadUrl by the same caller have the same allow/deny outcome, and
\* on two PRIVATE ones addDocumentVersion and updateMetadata have it too.
AllowListsReadOnlyForRestricted ==
    \A a \in DOMAIN documents, b \in DOMAIN documents, context \in Callers :
        DifferInAllowListsOnly(documents[a], documents[b])
        => /\ SameReadOutcome(a, b, context)
           /\ documents[a].metadata.accessLevel = "PRIVATE"
                 => SameWriteOutcome(a, b, context)

\* C16 witness: two PRIVATE records of one uploader, one of which names the
\* caller in allowedUserIds and a role of the caller in allowedRoles; the
\* caller has just been refused the one that names it.
AllowListsReadOnlyForRestrictedWitness ==
    \E a \in DOMAIN documents, b \in DOMAIN documents :
        /\ DifferInAllowListsOnly(documents[a], documents[b])
        /\ documents[a].metadata.accessLevel = "PRIVATE"
        /\ last.op = "getDocument"
        /\ last.docId = a
        /\ last.result = "Forbidden"
        /\ last.ctx.userId \in documents[a].metadata.allowedUserIds
        /\ last.ctx.roles \cap documents[a].metadata.allowedRoles # {}
        /\ documents[b].metadata.allowedRoles = {}

----------------------------------------------------------------------------
(* Signed URLs (SignSpec) *)

\* The signature a signed URL carries.
SignatureOf(url) ==
    LET at == {i \in DOMAIN url.query : url.query[i][1] \in {"signature", "X-Amz-Signature"}}
    IN  url.query[CHOOSE i \in at : TRUE][2]

\* The URL of an outcome that has one.
TheUrl(outcome) == CHOOSE url \in outcome.url : TRUE

\* C17: for both providers, with credentials, configuration and time fixed,
\* getSignedUrl returns the same URL for the same key, method and
\* expiresInSeconds, and two calls that differ in exactly one of the three
\* return different signatures (HMAC-SHA256 and SHA-256 taken as injective).
SignatureDeterminism ==
    ( last.op = "getSignedUrl" /\ last.result = "ok" )
    => /\ last.url = SignedUrlOf(last.provider, last.config, last.key,
                                 last.expiresInSeconds, last.method, last.now).url
       /\ \A key \in SignKeys, expiresInSeconds \in Expiries, method \in Methods :
              ( \/ key # last.key /\ expiresInSeconds = last.expiresInSeconds
                                  /\ method = last.method
                \/ key = last.key /\ expiresInSeconds # last.expiresInSeconds
                                  /\ method = last.method
                \/ key = last.key /\ expiresInSeconds = last.expiresInSeconds
                                  /\ method # last.method )
              => LET other == SignedUrlOf(last.provider, last.config, key,
                                          expiresInSeconds, method, last.now)
                 IN  /\ other.result = "ok"
                     /\ SignatureOf(TheUrl(other)) # SignatureOf(TheUrl(last))

\* C17 witness: the in-memory provider has signed a PUT URL for a key with
\* a ":" in it, at a later time than the first.
SignatureDeterminismWitness ==
    /\ last.op = "getSignedUrl"
    /\ last.provider = "memory"
    /\ last.result = "ok"
    /\ last.method = "PUT"
    /\ last.key = <<"a", ":", "1">>
    /\ last.now > 1

\* C18: with the S3 provider, when accessKeyId or secretAccessKey is missing
\* or empty, getSignedUrl fails and returns no URL, and uploadObject fails
\* without sending a PUT and stores nothing; every URL returned or used is
\* signed.
NoUnsignedAccess ==
    /\ []( ( last.op \in {"getSignedUrl", "uploadObject"} /\ last.provider = "s3" )
           => /\ ( \/ last.config.s3.accessKeyId \in {{}, {<<>>}}
                   \/ last.config.s3.secretAccessKey \in {{}, {<<>>}} )
                 => /\ last.result = "BadRequest"
                    /\ last.url = {}
                    /\ last.puts = {}
              /\ \A url \in last.url \cup last.puts :
                     \E i \in DOMAIN url.query : url.query[i][1] = "X-Amz-Signature" )
    /\ [][ ( /\ last'.op = "uploadObject"
             /\ \/ last'.config.s3.accessKeyId \in {{}, {<<>>}}
                \/ last'.config.s3.secretAccessKey \in {{}, {<<>>}} )
           => objects' = objects ]_vars

\* C18 witness: uploadObject was refused for an empty secretAccessKey, after
\* an upload with full credentials had stored an object.
NoUnsignedAccessWitness ==
    /\ last.op = "uploadObject"
    /\ last.config.s3.secretAccessKey = {<<>>}
    /\ last.config.s3.accessKeyId = AccessKeyId
    /\ last.message = "S3 credentials are not configured"
    /\ last.puts = {}
    /\ DOMAIN objects = {<<"a">>}

\* C19: getSignedUrl with expiresInSeconds zero or negative is rejected as
\* invalid input and returns no URL, for both providers.
NonPositiveExpiryRejected ==
    ( last.op = "getSignedUrl" /\ last.expiresInSeconds <= 0 )
    => last.result = "BadRequest" /\ last.url = {}

\* The host in the canonical request a signature was made of: what stands
\* between "host:" and the end of its line.
CanonicalHost(url) ==
    LET canonicalRequest == SignatureOf(url)[3][4][2]
        start == (CHOOSE i \in DOMAIN canonicalRequest : canonicalRequest[i] = "host:") + 1
        ends == {j \in start .. Len(canonicalRequest) : canonicalRequest[j] = "\n"}
    IN  SubSeq(canonicalRequest, start, (CHOOSE j \in ends : \A k \in ends : j <= k) - 1)

\* C20: for every S3 configuration the host in the canonical request that
\* getSignedUrl signs is the host of the URL it returns, and with an endpoint
\* override configured it is the override's host, not an amazonaws.com one.
HostConsistent ==
    ( last.op \in {"getSignedUrl", "uploadObject"} /\ last.provider = "s3" )
    => \A url \in last.url \cup last.puts :
          /\ CanonicalHost(url) = UrlHost(url.location)
          /\ TruthyString(last.config.s3.endpoint)
                => /\ CanonicalHost(url) = UrlHost(TheUrl([url |-> last.config.s3.endpoint]))
                   /\ \A i \in DOMAIN CanonicalHost(url) :
                          CanonicalHost(url)[i] # "amazonaws.com"

\* C20 witness: a URL signed for a local store addressed in virtual-host
\* style: the signed host is the store's, in lower case and with its port.
HostConsistentWitness ==
    /\ last.op = "getSignedUrl"
    /\ last.provider = "s3"
    /\ last.result = "ok"
    /\ ~last.config.s3.forcePathStyle
    /\ last.config.s3.endpoint = {<<"http", "://", "MinIO", ":", "9000", "/">>}
    /\ CanonicalHost(TheUrl(last)) = <<"minio", ":", "9000">>

----------------------------------------------------------------------------
(* Thumbnails and new records (SeqSpec) *)

\* C21: for a file that has passed validation and whose own upload has
\* succeeded, the thumbnail step never fails the call: createVersion returns
\* the version, whose thumbnailKey is set exactly when the file is an image
\* and its thumbnail has been made and stored, and is absent otherwise (then
\* nothing is stored); the call goes on to put the version into the record
\* and, the file being its last, returns.
ThumbnailFailureNotFatal ==
    [][\A c \in CallIds :
          LET call == calls[c]
              file == CurrentFile(call)
              key == BuildStorageKey(call.docId, call.versionNumber, ThumbnailFileName)
              stored == /\ key \in DOMAIN objects'
                        /\ objects'[key] = SharpThumbnail(file.buffer)
          IN  /\ ( call.pc = "thumbnail" /\ calls'[c] # call )
                 => /\ calls'[c].pc = "return"
                    /\ calls'[c].version.thumbnailKey
                           = IF IsImage(file.mimetype) /\ stored THEN {key} ELSE {}
                    /\ ~(IsImage(file.mimetype) /\ stored) => objects' = objects
              /\ ( call.pc = "return" /\ calls'[c] # call )
                 => /\ call.docId \in DOMAIN documents'
                    /\ LET versions == documents'[call.docId].versions
                       IN  versions[Len(versions)] = call.version
                    /\ call.idx = Len(call.files) => last'.result = "ok"]_vars

\* C21 witness: an upload of an image has returned a record without a
\* thumbnail key while the store holds no thumbnail for it, and another
\* record of the same image has its thumbnail.
ThumbnailFailureNotFatalWitness ==
    /\ last.op = "uploadDocuments"
    /\ last.result = "ok"
    /\ \E id \in last.ids :
          /\ IsImage(documents[id].versions[1].mimeType)
          /\ documents[id].versions[1].thumbnailKey = {}
          /\ BuildStorageKey(id, 1, ThumbnailFileName) \notin DOMAIN objects
    /\ \E id \in DOMAIN documents :
          /\ documents[id].versions[1].thumbnailKey
                 = {BuildStorageKey(id, 1, ThumbnailFileName)}
          /\ BuildStorageKey(id, 1, ThumbnailFileName) \in DOMAIN objects

\* C22: every record uploadDocuments stores is new: its id is not in the
\* store and not among the ids the call has stored, its status is ACTIVE, it
\* has the one version numbered 1, currentVersion 1, uploadedBy the caller
\* (whoever the input names) and accessLevel PRIVATE when the input gives
\* none; no other step of the call adds a record, and a call that returns has
\* at least one file, a non-empty caller id and has stored and returns one
\* record per file; a call that fails at once, as with no file or an empty
\* caller id, ends BadRequest and changes neither records nor objects.
UploadCreatesRecords ==
    /\ []( ( last.op = "uploadDocuments" /\ last.result = "ok" )
           => /\ last.ctx.userId # ""
              /\ Cardinality(last.ids) >= 1
              /\ last.ids \subseteq DOMAIN documents )
    /\ [][\A c \in CallIds :
             LET call == calls[c]
             IN  /\ ( call.op = "upload" /\ call.pc = "return" /\ calls'[c] # call )
                    => /\ call.docId \notin DOMAIN documents
                       /\ call.docId \notin call.results
                       /\ DOMAIN documents' = DOMAIN documents \cup {call.docId}
                       /\ \A id \in DOMAIN documents : documents'[id] = documents[id]
                       /\ LET record == documents'[call.docId]
                          IN  /\ record.id = call.docId
                              /\ record.status = "ACTIVE"
                              /\ Len(record.versions) = 1
                              /\ record.versions[1].version = 1
                              /\ record.currentVersion = 1
                              /\ record.metadata.uploadedBy = call.ctx.userId
                              /\ call.input.accessLevel = {}
                                    => record.metadata.accessLevel = "PRIVATE"
                       /\ calls'[c].pc = "idle"
                             => /\ last'.result = "ok"
                                /\ last'.ids = call.results \cup {call.docId}
                                /\ Cardinality(last'.ids) = Len(call.files)
                 /\ ( call.op = "upload" /\ call.pc # "return" )
                    => documents' = documents
                 /\ ( InFlight = {} /\ last'.op = "uploadDocuments" /\ calls'[c].pc = "idle"
                          /\ last' # last )
                    => /\ last'.result = "BadRequest"
                       /\ documents' = documents
                       /\ objects' = objects]_vars

\* C22 witness: u1 has uploaded two files in one call with an input that
\* names u2 as the owner and gives no access level; both records are there.
UploadCreatesRecordsWitness ==
    /\ last.op = "uploadDocuments"
    /\ last.result = "ok"
    /\ last.ctx.userId = "u1"
    /\ last.ids = {1, 2}
    /\ \A id \in {1, 2} :
          /\ documents[id].metadata.uploadedBy = "u1"
          /\ documents[id].metadata.accessLevel = "PRIVATE"
          /\ documents[id].currentVersion = 1

----------------------------------------------------------------------------
(* Listing (ListSpec) *)

\* A filter is supplied when it has a value other than the empty string.
Supplied(filter) == \E value \in filter : value # ""

\* The record satisfies every supplied filter; `lower` and `words` give the
\* lower-case form of a string and its words.
SatisfiesFilters(document, filters) ==
    /\ Supplied(filters.propertyId) => document.metadata.propertyId = filters.propertyId
    /\ Supplied(filters.type) => document.type \in filters.type
    /\ Supplied(filters.accessLevel) => document.metadata.accessLevel \in filters.accessLevel
    /\ Supplied(filters.uploadedBy) => document.metadata.uploadedBy \in filters.uploadedBy
    /\ \A mimeType \in filters.mimeType :
          mimeType # <<>>
          => \E i \in DOMAIN document.versions :
                /\ document.versions[i].version = document.currentVersion
                /\ document.versions[i].mimeType = mimeType
    /\ \A createdAfter \in filters.createdAfter : createdAfter <= document.createdAt
    /\ \A createdBefore \in filters.createdBefore : document.createdAt <= createdBefore
    /\ \A tag \in filters.tag :
          tag # ""
          => \E i \in DOMAIN document.metadata.tags :
                ToLowerCase(document.metadata.tags[i]) = ToLowerCase(tag)
    /\ \A search \in filters.search :
          search # ""
          => Includes(CombinedText(document), Pieces(ToLowerCase(search)))

\* C23: listDocuments returns exactly the stored records that the caller
\* can obtain through getDocument and that satisfy every supplied filter at
\* once: exact match on propertyId, type, accessLevel, uploadedBy and the
\* current version's mimeType, createdAfter <= createdAt <= createdBefore,
\* one tag equal to the tag filter and the text of title, description and
\* tags containing the search text, both whatever the case.  A caller with
\* a user id always gets this list.
ListReturnsMatches ==
    ( last.op = "listDocuments" /\ last.ctx.userId # "" )
    => /\ last.result = "ok"
       /\ last.ids = {id \in DOMAIN documents :
                         /\ GetDocumentResult(id, last.ctx) = "ok"
                         /\ SatisfiesFilters(documents[id], last.filters)}

\* C23 witness: u2 has listed with a type and an accessLevel filter and got
\* its own record; the store holds a record of u1 that satisfies both
\* filters and that u2 cannot read.
ListReturnsMatchesWitness ==
    /\ last.op = "listDocuments"
    /\ last.result = "ok"
    /\ last.ctx.userId = "u2"
    /\ last.filters = [NoFilters EXCEPT !.type = {"OTHER"}, !.accessLevel = {"PRIVATE"}]
    /\ Cardinality(last.ids) = 1
    /\ \E id \in DOMAIN documents :
          /\ SatisfiesFilters(documents[id], last.filters)
          /\ documents[id].metadata.uploadedBy = "u1"
          /\ GetDocumentResult(id, last.ctx) # "ok"

----------------------------------------------------------------------------
(* Lifecycle (MetaSpec) *)

\* C24: in every reachable state every stored record has status ACTIVE and
\* is found under its id by getDocument of its owner, and no step of any
\* operation removes a record from the store.
RecordsStayActive ==
    /\ [](\A id \in DOMAIN documents :
              /\ documents[id].status = "ACTIVE"
              /\ documents[id].id = id
              /\ GetDocumentResult(id, Context(documents[id].metadata.uploadedBy, {})) = "ok")
    /\ [][\A id \in DOMAIN documents : id \in DOMAIN documents']_vars

\* C24 witness: the owner has fetched a record that has been written to
\* since it was created.
RecordsStayActiveWitness ==
    /\ last.op = "getDocument"
    /\ last.result = "ok"
    /\ last.docId \in DOMAIN documents
    /\ last.ctx.userId = documents[last.docId].metadata.uploadedBy
    /\ documents[last.docId].updatedAt > documents[last.docId].createdAt
    /\ documents[last.docId].status = "ACTIVE"

----------------------------------------------------------------------------
(* Appends that overlap (AppendSpec) *)

\* C25: the append of a version is atomic: the steps of an addDocumentVersion
\* before its last one leave the records as they are, so that reads made
\* meanwhile see the old versions and currentVersion; and in every state,
\* which is what any operation can observe, no record has an entry numbered
\* above its currentVersion and every currentVersion names an entry of the
\* list.
AppendIsAtomic ==
    /\ [](\A id \in DOMAIN documents :
              /\ \A i \in DOMAIN documents[id].versions :
                     documents[id].versions[i].version <= documents[id].currentVersion
              /\ \E i \in DOMAIN documents[id].versions :
                     documents[id].versions[i].version = documents[id].currentVersion)
    /\ [][\A c \in CallIds :
             ( calls[c].op = "add" /\ calls[c].pc \in {"upload", "thumbnail"}
                  /\ calls'[c] # calls[c] )
             => documents' = documents]_vars

----------------------------------------------------------------------------
(* Calls on different records (ParallelSpec) *)

\* C26: every step of an addDocumentVersion on a record, and every
\* updateMetadata on it, whether it succeeds or fails, leaves every other
\* record as it was, field by field; this holds between the records that one
\* uploadDocuments call has made as well.
DifferentRecordsIndependent ==
    [][ /\ \A c \in CallIds :
               ( calls[c].op = "add" /\ calls'[c] # calls[c] )
               => \A other \in DOMAIN documents \ {calls[c].docId} :
                      documents'[other] = documents[other]
        /\ ( /\ last'.op \in {"addDocumentVersion", "updateMetadata"}
             /\ last' # last \/ documents' # documents )
           => \A other \in DOMAIN documents \ {last'.docId} :
                  documents'[other] = documents[other] ]_vars

\* C26 witness: of two records made by one upload, one has since been made
\* PUBLIC while a version was being appended to the other, which still has
\* the metadata and the metadata object it was created with.
DifferentRecordsIndependentWitness ==
    /\ last.op = "updateMetadata"
    /\ last.result = "ok"
    /\ DOMAIN documents = {1, 2}
    /\ documents[last.docId].metadata.accessLevel = "PUBLIC"
    /\ \E other \in DOMAIN documents \ {last.docId} :
          /\ documents[other].metadataRef = <<"upload", 1>>
          /\ documents[other].metadata.accessLevel = "PRIVATE"
          /\ \E c \in CallIds : calls[c].op = "add" /\ calls[c].docId = other

----------------------------------------------------------------------------
(* The uploader's access (MetaSpec) *)

\* The user who uploaded the record: the uploader of its first version.
OriginalUploader(document) == document.versions[1].uploadedBy

UploaderReads(id) ==
    GetDocumentResult(id, Context(OriginalUploader(documents[id]), {})) = "ok"

\* C27: a successful addDocumentVersion or updateMetadata made by a caller
\* other than the user who uploaded the record leaves the record readable by
\* that user: getDocument by the uploader succeeds after the call when it
\* succeeded before.
UploaderKeepsReadAccess ==
    [][ \A id \in DOMAIN documents :
            ( /\ last'.op \in {"addDocumentVersion", "updateMetadata"}
              /\ last'.result = "ok"
              /\ last'.docId = id
              /\ documents'[id] # documents[id]
              /\ last'.ctx.userId # OriginalUploader(documents[id])
              /\ UploaderReads(id) )
            => UploaderReads(id)' ]_vars

----------------------------------------------------------------------------
(* Writers are readers (AccessSpec) *)

\* C28: a caller whom addDocumentVersion or updateMetadata lets past the
\* authorization check on a record is a caller for whom getDocument on that
\* record succeeds: in every state, for every caller and record, and for
\* every call that went past the check.
WriteImpliesRead ==
    /\ [](\A id \in 1 .. MaxDocs, ctx \in Contexts :
             GetDocumentForUpdateResult(id, ctx) = "ok"
             => GetDocumentResult(id, ctx) = "ok")
    /\ [][ /\ \A c \in CallIds :
                   ( calls[c].pc = "idle" /\ calls'[c].pc # "idle" /\ calls'[c].op = "add" )
                   => GetDocumentResult(calls'[c].docId, calls'[c].ctx) = "ok"
           /\ ( /\ last'.op = "updateMetadata"
                /\ last'.result = "ok"
                /\ last' # last \/ documents' # documents )
              => GetDocumentResult(last'.docId, last'.ctx) = "ok" ]_vars

\* C28 witness: a caller who is not the uploadedBy and not in
\* allowedUserIds has updated a RESTRICTED record through a role of
\* allowedRoles, the role that lets them read it.
WriteImpliesReadWitness ==
    /\ last.op = "updateMetadata"
    /\ last.result = "ok"
    /\ LET metadata == documents[last.docId].metadata
       IN  /\ metadata.accessLevel = "RESTRICTED"
           /\ metadata.uploadedBy # last.ctx.userId
           /\ last.ctx.userId \notin metadata.allowedUserIds
           /\ last.ctx.roles \cap metadata.allowedRoles # {}

----------------------------------------------------------------------------
(* Storage keys (SeqSpec) *)

\* The version entries of the store, each named by record id and position.
VersionEntries ==
    {e \in (DOMAIN documents) \X (1 .. MaxVersions) :
        e[2] \in DOMAIN documents[e[1]].versions}

EntryAt(e) == documents[e[1]].versions[e[2]]

\* C29: the storageKey of every version entry is
\* documents/{record id}/v{entry version}/{file name, every character outside
\* [a-zA-Z0-9._-] replaced by _}; no two version entries share a storageKey,
\* and no entry's storageKey is the thumbnailKey of any entry.
StorageKeysDistinct ==
    /\ \A e \in VersionEntries :
          EntryAt(e).storageKey
              = <<"documents", e[1], EntryAt(e).version,
                  SanitizeFileName(EntryAt(e).originalFileName)>>
    /\ \A e, f \in VersionEntries :
          /\ e # f => EntryAt(e).storageKey # EntryAt(f).storageKey
          /\ EntryAt(e).storageKey \notin EntryAt(f).thumbnailKey

----------------------------------------------------------------------------
(* The bucket in a signed URL (SignSpec) *)

StartsWith(string, prefix) ==
    Len(string) >= Len(prefix) /\ SubSeq(string, 1, Len(prefix)) = prefix

\* The path of an absolute URL without query: what follows the authority.
UrlPath(location) ==
    LET start == (CHOOSE i \in DOMAIN location : location[i] = "://") + 1
        slashes == {j \in start .. Len(location) : location[j] = "/"}
    IN  IF slashes = {} THEN <<>>
        ELSE SubSeq(location, CHOOSE j \in slashes : \A k \in slashes : j <= k,
                    Len(location))

\* The canonical URI in the canonical request a signature was made of: its
\* second line.
SignedCanonicalUri(url) ==
    LET canonicalRequest == SignatureOf(url)[3][4][2]
        breaks == {j \in DOMAIN canonicalRequest : canonicalRequest[j] = "\n"}
        first == CHOOSE j \in breaks : \A k \in breaks : j <= k
        second == CHOOSE j \in breaks \ {first} : \A k \in breaks \ {first} : j <= k
    IN  SubSeq(canonicalRequest, first + 1, second - 1)

\* C30: for every S3 configuration, endpoint override set or not and
\* forcePathStyle true or false, the URL getSignedUrl returns names the
\* configured bucket, at the start of its host or as its first path segment,
\* and its path is the canonical URI that was signed.
UrlNamesBucket ==
    ( last.op \in {"getSignedUrl", "uploadObject"} /\ last.provider = "s3" )
    => \A url \in last.url \cup last.puts :
          LET bucket == last.config.s3.bucket
          IN  /\ \/ StartsWith(UrlHost(url.location), bucket \o <<".">>)
                 \/ StartsWith(UrlPath(url.location), <<"/">> \o bucket \o <<"/">>)
              /\ UrlPath(url.location) = SignedCanonicalUri(url)

====
